---- MODULE Spec2Model ----
(***************************************************************************)
(* Model of the streaming-request execution engine of PreTackler           *)
(* (src/PreTackler/src/processor.rs): one job's retry loop                 *)
(* (process_streaming_request), the frame parser (process_line), the       *)
(* staging file guard (TempWriterGuard) and the backoff helpers; the rate  *)
(* limiter shared by the workers (RateLimiter, SpecLimiter); the worker    *)
(* pool of process_directory with its two queues and its concurrency       *)
(* budget (SpecPool, SpecPoolFair).                                        *)
(* The long channel: the timeouts of the two job classes and the idle      *)
(* estimator LongAdapt, as the program calls it (SpecLong) and as a unit   *)
(* whose methods are awaited (SpecAdapt). A job behind the rate limiter    *)
(* (SpecGated).                                                            *)
(*                                                                         *)
(* A stream is modelled at the level of tokens: "data:" is the frame       *)
(* prefix, "[DONE]" the sentinel payload, "A", "B", "AB", "E" are complete *)
(* JSON payloads (carrying the deltas a / b / a,b / none), "X" is text     *)
(* that does not parse, " " is white space and "\n" the line terminator.   *)
(* The network delivers chunks, which are token sequences whose boundaries *)
(* need not coincide with line boundaries.                                 *)
(***************************************************************************)
EXTENDS Integers, Sequences, FiniteSets, TLC

\* ------------------------------------------------------------------ bounds
\* chunks the server sends in one attempt, at most
MaxChunks == 2
\* the same, for each of two jobs running side by side
PairChunks == 1

\* ------------------------------------------------------- program constants
MAX_ATTEMPTS == 5
BACKOFF_BASE_MS == 500
BACKOFF_FACTOR == 2
BACKOFF_MAX_MS == 30000

\* ------------------------------------------------------------------ inputs
Jobs == {"j1", "j2"}

\* fault-injection selector of the run (parse_fault)
FaultKind == {"None", "Status429", "Status500", "Idle"}

\* HTTP statuses the server may answer with
Statuses == {200, 301, 404, 429, 500, 599, 600}

\* reqwest error kinds, for a failed send and for a failed stream read
ErrKinds == {"timeout", "connect", "request", "body", "decode"}

\* configured stream idle timeout (seconds); 0 means no idle bound
IdleChoices == {0, 30}

\* chunks the network may deliver
Chunks ==
  { <<"data:", " ", "A", "\n", "data:", "B">>,
    <<"\n", "data:", "AB", "\n">>,
    <<"data:", "[DONE]", "\n", "data:", "A", "\n">>,
    <<"X", "\n", "data:", "X", "\n", "data:", "E", "\n", "data:", " ", "[DONE]">> }

\* what the network and the server may do to a job: a "flaky" one may fail a
\* send, answer any status, stall or break a stream; a "steady" one answers
\* 200 and streams until it ends the stream
NetKinds == {"flaky", "steady"}

\* --------------------------------------------------------------- utilities
Min(a, b) == IF a <= b THEN a ELSE b

IndexOfNewline(buf) ==
  IF \E i \in 1..Len(buf) : buf[i] = "\n"
  THEN CHOOSE i \in 1..Len(buf) : buf[i] = "\n" /\ \A k \in 1..(i-1) : buf[k] # "\n"
  ELSE 0

\* ------------------------------------------------------------ file system
Absent == [exists |-> FALSE, data |-> <<>>]
File(d) == [exists |-> TRUE, data |-> d]
OldContent == <<"old">>

\* the destination of job j, and the staging file opened by its n-th attempt
DestPath(j) == <<j, 0>>
TmpPath(j, n) == <<j, n>>
Paths == Jobs \X (0..MAX_ATTEMPTS)

VARIABLES
  fault,      \* fault-injection selector of the run
  idleSecs,   \* per job: stream_idle_timeout_secs
  destBefore, \* per job: the destination as it was before the run
  net,        \* per job: the behaviour of the network and server (NetKinds)
  quota,      \* per job: the chunks the server sends in one attempt, at most
  fs,         \* file system: Paths -> Absent or File(content)
  pc,         \* per job: position in process_file / process_streaming_request
  attempt,    \* per job: the loop variable `attempt`
  guard,      \* per job: the TempWriterGuard of the current attempt
  resp,       \* per job: send_res, the outcome of rb.send()
  buffer,     \* per job: the line buffer of the current attempt
  finished,   \* per job: the flag `finished`
  chunksRead, \* per job: chunks delivered in the current attempt
  resume,     \* per job: what follows the backoff sleep (continue / break)
  result,     \* per job: "none", "ok" or the kind of error returned
  sleeps,     \* per job: log of the backoff sleeps taken
  received,   \* per job: log of the tokens received in the current attempt
  ended,      \* per job: how the stream read loop of the current attempt ended
  all429,     \* per job: every attempt that ended so far ended with status 429
  chunk       \* per job: the chunk taken from the stream, until it is processed

cfg == <<fault, idleSecs, destBefore, net, quota>>

jobVars == <<fault, idleSecs, destBefore, net, quota, fs, pc, attempt, guard, resp, buffer,
             finished, chunksRead, resume, result, sleeps, received, ended, all429, chunk>>

\* the rate limiter shared by the workers (RateLimiter) and the clock
VARIABLES
  clock,      \* Instant::now(), in ticks
  inner,      \* RateLimiterInner, the state behind the limiter's Mutex
  lock,       \* the worker holding the limiter's Mutex, if any
  lw,         \* per worker: its position in acquire_request / acquire_bytes
  granted,    \* history: the number of request grants and the time of the first
  calls       \* history, per worker: the limiter calls counted against MaxCalls

limVars == <<clock, inner, lock, lw, granted, calls>>

\* the worker pool of process_directory
VARIABLES
  run,        \* the run: files of each class, override, what the probe finds
  rx,         \* per class: the channel (queue, closed) and the Mutex around rx
  turn,       \* AtomicUsize turn
  started,    \* AtomicUsize started
  completed,  \* AtomicUsize completed
  pw,         \* per worker task: position, prefer_long, job, processed
  main,       \* process_directory: position, concurrency_limit, files_processed
  job_log     \* history, per job: how far it got and how often it was taken

poolVars == <<run, rx, turn, started, completed, pw, main, job_log>>

\* the long channel: the timeouts of the two classes and the idle estimator
VARIABLES
  lc,         \* the run: base timeouts, overrides, multiplier, adaptive flag
  adapt,      \* LongAdaptInner (samples_ms, cap) and the holder of its Mutex
  lj,         \* per job: class, timeouts, position in its attempt
  observed    \* history: the samples of the observe calls that ran, in order

longVars == <<lc, adapt, lj, observed>>

\* what the execution of a job leaves alone
notJob == <<limVars, poolVars, longVars>>

\* what the rate limiter leaves alone
notLimiter == <<jobVars, poolVars, longVars>>

\* what the worker pool leaves alone
notPool == <<jobVars, limVars, longVars>>

\* what the long channel leaves alone
notLong == <<jobVars, limVars, poolVars>>

vars == <<jobVars, limVars, poolVars, longVars>>


\* ------------------------------------------------------- retry classifiers
\* faulty variant: every code from 500 up counts as a server error
is_retryable_status_open(code) == code = 429 \/ code >= 500

is_retryable_status(code) == code = 429 \/ (code >= 500 /\ code < 600)

\* faulty variant: request errors are not retried
should_retry_error_no_request(err) == err \in {"timeout", "connect"}

should_retry_error(err) == err \in {"timeout", "connect", "request"}

is_success(code) == code >= 200 /\ code < 300

RECURSIVE powi(_, _)
powi(factor, n) == IF n <= 0 THEN 1 ELSE factor * powi(factor, n - 1)

\* faulty variant: the exponent is the attempt, not the attempt minus one
backoff_delay_ms_offbyone(att, base_ms, factor, max_ms) ==
  Min(base_ms * powi(factor, att), max_ms)

\* attempt.saturating_sub(1), the float product rounded, then the cap
backoff_delay_ms(att, base_ms, factor, max_ms) ==
  LET pow == powi(factor, IF att >= 1 THEN att - 1 ELSE 0)
      v   == base_ms * pow
  IN  Min(v, max_ms)

\* ------------------------------------------------------------ frame parser
IsSpace(t) == t \in {" ", "\n"}

RECURSIVE TrimStart(_)
TrimStart(s) ==
  IF s # <<>> /\ IsSpace(Head(s)) THEN TrimStart(Tail(s)) ELSE s

RECURSIVE TrimEnd(_)
TrimEnd(s) ==
  IF s # <<>> /\ IsSpace(s[Len(s)]) THEN TrimEnd(SubSeq(s, 1, Len(s) - 1)) ELSE s

Trim(s) == TrimEnd(TrimStart(s))

\* serde_json::from_str::<StreamResponse>(payload): the content of every
\* choice that has a delta with content, or "no parse"
JsonPayloads == {"A", "B", "AB", "E"}
ParsesAsJson(payload) == Len(payload) = 1 /\ payload[1] \in JsonPayloads
Contents(payload) ==
  CASE payload[1] = "A"  -> <<"a">>
    [] payload[1] = "B"  -> <<"b">>
    [] payload[1] = "AB" -> <<"a", "b">>
    [] OTHER             -> <<>>

\* faulty variant: a line that is not a data frame ends the stream
process_line_stop_on_garbage(line_bytes) ==
  LET trimmed == Trim(line_bytes) IN
  IF trimmed = <<>> \/ Head(trimmed) # "data:"
  THEN [done |-> TRUE, writes |-> <<>>]
  ELSE LET payload == Trim(Tail(trimmed)) IN
       IF payload = <<"[DONE]">>
       THEN [done |-> TRUE, writes |-> <<>>]
       ELSE IF ~ParsesAsJson(payload)
            THEN [done |-> FALSE, writes |-> <<>>]
            ELSE [done |-> FALSE, writes |-> Contents(payload)]

\* process_line: [done |-> the returned flag, writes |-> the contents written]
process_line(line_bytes) ==
  LET trimmed == Trim(line_bytes) IN
  IF trimmed = <<>> \/ Head(trimmed) # "data:"
  THEN [done |-> FALSE, writes |-> <<>>]
  ELSE LET payload == Trim(Tail(trimmed)) IN
       IF payload = <<"[DONE]">>
       THEN [done |-> TRUE, writes |-> <<>>]
       ELSE IF ~ParsesAsJson(payload)
            THEN [done |-> FALSE, writes |-> <<>>]
            ELSE [done |-> FALSE, writes |-> Contents(payload)]

\* faulty variant: the loop does not stop at the sentinel
RECURSIVE DrainLines_no_break(_, _)
DrainLines_no_break(buf, written) ==
  LET position == IndexOfNewline(buf) IN
  IF position = 0
  THEN [buf |-> buf, writes |-> written, finished |-> FALSE]
  ELSE LET line == SubSeq(buf, 1, position)
           rest == SubSeq(buf, position + 1, Len(buf))
           r    == process_line(line)
       IN  IF r.done
           THEN [DrainLines_no_break(rest, written \o r.writes) EXCEPT !.finished = TRUE]
           ELSE DrainLines_no_break(rest, written \o r.writes)

\* the `while let Some(position)` loop over the buffer after a chunk was
\* appended: [buf, writes, finished]
RECURSIVE DrainLines(_, _)
DrainLines(buf, written) ==
  LET position == IndexOfNewline(buf) IN
  IF position = 0
  THEN [buf |-> buf, writes |-> written, finished |-> FALSE]
  ELSE LET line == SubSeq(buf, 1, position)
           rest == SubSeq(buf, position + 1, Len(buf))
           r    == process_line(line)
       IN  IF r.done
           THEN [buf |-> rest, writes |-> written \o r.writes, finished |-> TRUE]
           ELSE DrainLines(rest, written \o r.writes)

\* faulty variant: what is left in the buffer at the end is thrown away
tail_line_dropped(buf, done) == [done |-> FALSE, writes |-> <<>>]

\* after the read loop: `if !finished && !buffer.is_empty()` the rest of the
\* buffer goes through process_line as one last line
tail_line(buf, done) ==
  IF ~done /\ buf # <<>> THEN process_line(buf) ELSE [done |-> FALSE, writes |-> <<>>]

\* ------------------------------------------------------------ staging guard
NoGuard == [open |-> FALSE, tmp_path |-> <<>>, final_path |-> <<>>, committed |-> FALSE]

\* open_temp_writer: a staging file beside the destination, named after the
\* destination with a suffix that is fresh for every attempt
open_temp_writer(j, n) ==
  [open |-> TRUE, tmp_path |-> TmpPath(j, n), final_path |-> DestPath(j),
   committed |-> FALSE]

\* faulty variant: dropping the guard removes nothing
drop_keeps_file(f, g) == f

\* impl Drop for TempWriterGuard: the file system after the guard is dropped
drop(f, g) ==
  IF g.open /\ ~g.committed THEN [f EXCEPT ![g.tmp_path] = Absent] ELSE f

\* TempWriterGuard::commit: the file system after fs::rename(tmp, final)
commit(f, g) ==
  [f EXCEPT ![g.final_path] = f[g.tmp_path], ![g.tmp_path] = Absent]

\* faulty variant: the writer writes to the destination itself
write_all_in_place(f, g, contents) ==
  [f EXCEPT ![g.final_path] = File((IF @.exists THEN @.data ELSE <<>>) \o contents)]

\* the writer: contents appended to the staging file and flushed
write_all(f, g, contents) ==
  [f EXCEPT ![g.tmp_path] = File(f[g.tmp_path].data \o contents)]

\* ------------------------------------------------------------ send outcomes
NoResp == [kind |-> "none", code |-> 0, err |-> "none"]
StatusResp(c) == [kind |-> "status", code |-> c, err |-> "none"]
ErrResp(e) == [kind |-> "err", code |-> 0, err |-> e]

SendOutcomes(kind) ==
  IF kind = "steady"
  THEN {StatusResp(200)}
  ELSE {StatusResp(c) : c \in Statuses} \cup {ErrResp(e) : e \in ErrKinds}

\* faulty variant: the delay does not grow with the attempt
Delay_fixed(att) == BACKOFF_BASE_MS

\* the delay every retry branch computes for its attempt
Delay(att) == backoff_delay_ms(att, BACKOFF_BASE_MS, BACKOFF_FACTOR, BACKOFF_MAX_MS)

\* ------------------------------------------------------------ rate limiter
\* ticks of the clock in one second
SECOND == 2

\* the clock stops there
MaxTime == 4

Workers == {"w1", "w2"}

\* Option<T>
None == <<>>
Some(x) == <<x>>

\* --rate-limit-rps and --rate-limit-bytes-per-sec of the run
RpsChoices == {None, Some(1), Some(2)}
BytesPerSecChoices == {None, Some(2)}

\* chunk.len() of the chunks a worker asks a byte permit for
Needs == {1, 3}

\* RateLimiter::new at time `now`
new(rps, bytes_per_sec, now) ==
  [rps |-> rps, bytes_per_sec |-> bytes_per_sec, last_request |-> None,
   epoch_start |-> now, bytes_in_epoch |-> 0]

\* Duration::from_secs_f64((1.0 / rps).max(0.0)), in ticks
min_interval(rps) == SECOND \div rps

\* faulty variant: a request is due at once, whenever the last one was
due_at_once(last_request, interval, now) == now

\* the time the next request may be granted at
due(last_request, interval, now) ==
  IF last_request = None THEN now ELSE last_request[1] + interval

\* the epoch roll-over at the head of the byte loop
roll_epoch(in, now) ==
  IF now - in.epoch_start >= SECOND
  THEN [in EXCEPT !.epoch_start = now, !.bytes_in_epoch = 0]
  ELSE in

\* faulty variant: the budget is tested before the permit is added
fits_before_adding(in, need, limit) == in.bytes_in_epoch <= limit

\* the permit fits into what is left of the epoch's budget
fits(in, need, limit) == in.bytes_in_epoch + need <= limit

\* faulty variant: the guard is kept across the sleep
drop_inner_late(holder) == holder

\* drop(inner) before a sleep: the Mutex is free again
drop_inner(holder) == None

\* faulty variant: the worker sleeps on without looking at the limiter again
after_sleep_again(at) == at

\* after sleep(..).await the loop body runs again, from the lock
after_sleep(at) == IF at = "req_sleep" THEN "req_loop" ELSE "bytes_loop"

\* a worker that is not inside the limiter
Outside == [pc |-> "out", need |-> 0, wake |-> 0]

\* no limiter is configured and no worker calls one
LimiterOff ==
  /\ clock = 0
  /\ inner = new(None, None, 0)
  /\ lock = None
  /\ lw = [w \in Workers |-> Outside]
  /\ granted = [n |-> 0, first |-> 0]
  /\ calls = [w \in Workers |-> 0]

\* let limiter = if rate_limit_rps.is_some() || rate_limit_bytes_per_sec.is_some()
LimiterOn == inner.rps # None \/ inner.bytes_per_sec # None

\* the worker a job is executed by
WorkerOf(j) == IF j = "j1" THEN "w1" ELSE "w2"

\* faulty variant: the job goes on without awaiting the limiter
acquired_unawaited(w) == TRUE

\* l.acquire_request().await or l.acquire_bytes(..).await has returned
acquired(w) == lw[w].pc = "out"

\* ------------------------------------------------------------- worker pool
PER_TASK_MEMORY_KB == 64 * 1024
PER_TASK_BANDWIDTH_BYTES == 512 * 1024

\* files in the input directory, at most
MaxJobs == 3

\* the largest budget the overrides and probes below lead to
MaxBudget == 2

\* the worker tasks, in the order they are spawned in
PoolWorkers == 1 .. MaxBudget

\* the jobs of the two classes, in the order they are enqueued in
NormalJobs(k) == [i \in 1 .. k |-> <<"normal", i>>]
LongJobs(k) == [i \in 1 .. k |-> <<"long", i>>]
PoolJobs == {"normal", "long"} \X (1 .. MaxJobs)

\* --concurrency-ceil of the run
Overrides == {None, Some(0), Some(2)}

\* what the resource probe finds: cpu cores, available memory in KB, bytes
\* seen on the network during the 500 ms sample
Probes ==
  { [cores |-> 1, available_memory |-> 4 * PER_TASK_MEMORY_KB, delta_bytes |-> 0],
    [cores |-> 4, available_memory |-> 0, delta_bytes |-> 0],
    [cores |-> 8, available_memory |-> 8 * PER_TASK_MEMORY_KB,
     delta_bytes |-> PER_TASK_BANDWIDTH_BYTES] }

\* the probe is not taken when an override is given
NoProbe == [cores |-> 0, available_memory |-> 0, delta_bytes |-> 0]

Max(a, b) == IF a >= b THEN a ELSE b

\* usize::clamp
clamp(x, lo, hi) == IF x < lo THEN lo ELSE IF x > hi THEN hi ELSE x

\* ceil(cpu_cores * 0.85)
cpu_limit(sys) == (Max(sys.cores, 1) * 85 + 99) \div 100

\* floor(available_memory / PER_TASK_MEMORY_KB * 0.85), at least 1
memory_limit(sys) ==
  Max((Max(sys.available_memory, PER_TASK_MEMORY_KB) * 85) \div (PER_TASK_MEMORY_KB * 100), 1)

\* the bandwidth of the sample, and the limit it allows
network_limit(sys) ==
  LET bandwidth_bytes_per_sec == sys.delta_bytes * 2
  IN IF bandwidth_bytes_per_sec < PER_TASK_BANDWIDTH_BYTES
     THEN Max(cpu_limit(sys), memory_limit(sys))
     ELSE Max((bandwidth_bytes_per_sec * 85 + PER_TASK_BANDWIDTH_BYTES * 100 - 1)
                \div (PER_TASK_BANDWIDTH_BYTES * 100), 1)

\* faulty variant: the result is not capped at the number of files
determine_concurrency_limit_uncapped(max_override, total_files, sys) ==
  IF max_override # None
  THEN Max(max_override[1], 1)
  ELSE Max(Min(Min(cpu_limit(sys), memory_limit(sys)), network_limit(sys)), 1)

determine_concurrency_limit(max_override, total_files, sys) ==
  LET total == Max(total_files, 1)
  IN IF max_override # None
     THEN clamp(max_override[1], 1, total)
     ELSE Min(Max(Min(Min(cpu_limit(sys), memory_limit(sys)), network_limit(sys)), 1), total)

\* faulty variant: only the preferred queue is ever polled
QueueAt_preferred(prefer_long, k) ==
  IF prefer_long THEN "long" ELSE "normal"

\* the queue polled k-th (k = 1, 2) in a dispatch cycle with this preference
QueueAt(prefer_long, k) ==
  IF prefer_long = (k = 1) THEN "long" ELSE "normal"

\* faulty variant: a closed channel is not told from an open one
recv_ready_open(queue, closed) == queue # <<>>

\* Receiver::recv returns at once: a message is queued, or every sender is gone
recv_ready(queue, closed) == queue # <<>> \/ closed

\* faulty variant: the message is handed out but stays in the channel
recv_peek(queue) == [job |-> Some(Head(queue)), rest |-> queue]

\* a message is received: it leaves the channel
recv(queue) == [job |-> Some(Head(queue)), rest |-> Tail(queue)]

\* a channel with its Mutex before anything is sent
EmptyChannel == [queue |-> <<>>, closed |-> FALSE, lock |-> None]

\* a worker task that has not been spawned
Unspawned == [pc |-> "unspawned", prefer_long |-> FALSE, job |-> None, processed |-> 0]

\* the pool before process_directory has planned anything
PoolIdle(cfgs, at) ==
  /\ run \in cfgs
  /\ rx = [q \in {"normal", "long"} |-> EmptyChannel]
  /\ turn = 0
  /\ started = 0
  /\ completed = 0
  /\ pw = [w \in PoolWorkers |-> Unspawned]
  /\ main = [pc |-> at, concurrency_limit |-> 0, spawned |-> 0, files_processed |-> 0]
  /\ job_log = [j \in PoolJobs |-> [state |-> "none", takes |-> 0]]

\* no directory is processed
NoRun == [normal |-> 0, long |-> 0, max_override |-> None, sys |-> NoProbe]

PoolOff == PoolIdle({NoRun}, "off")

\* ------------------------------------------------------------ long channel
\* capacity of the idle histogram: LongAdapt::new sets 256, scaled down here
\* to the least capacity at which the 95th percentile is not the maximum
Cap == 20

\* observe calls that run in one behaviour, at most: the histogram fills up
\* and evicts twice
MaxObserve == Cap + 2

\* chunks a job receives, at most
MaxGaps == 2

\* the two jobs whose streams feed and consult the estimator
Callers == {"c1", "c2"}

\* the gap before the k-th chunk of the run, in microseconds: the first is
\* very short or very long, the second one of two middling ones
GapsAt(k) ==
  IF k = 1 THEN {1500, 40000999} ELSE IF k = 2 THEN {1200999, 2500000} ELSE {2500000}

\* Duration::as_millis
as_millis(dt) == dt \div 1000

\* the base request and idle timeouts of the run, in seconds (0: unbounded)
BaseTimeouts == {[req |-> 60, idle |-> 30], [req |-> 0, idle |-> 0], [req |-> 3, idle |-> 1]}

\* --long-channel-request-timeout-secs and --long-channel-idle-timeout-secs
LongOverrides ==
  {[req |-> None, idle |-> None], [req |-> Some(0), idle |-> Some(7)],
   [req |-> Some(7), idle |-> Some(0)]}

\* --long-channel-timeout-multiplier, in tenths
Multipliers == {-10, 0, 5, 10, 15, 50}

\* faulty variant: the product is not floored at the base timeout
compute_long_timeout_unfloored(base_secs, override_secs, multiplier) ==
  IF override_secs # None THEN override_secs[1]
  ELSE LET mul == IF multiplier <= 0 THEN 10 ELSE multiplier
       IN (base_secs * mul * 2 + 10) \div 20

\* the override, or round(base_secs * mul) floored at base_secs, where mul is
\* 1 for a multiplier that is not positive
compute_long_timeout(base_secs, override_secs, multiplier) ==
  IF override_secs # None THEN override_secs[1]
  ELSE LET mul == IF multiplier <= 0 THEN 10 ELSE multiplier
           v   == (base_secs * mul * 2 + 10) \div 20
       IN Max(v, base_secs)

\* the timeout put on the request: 0 stands for no limit, sent as 24 * 86400 s
request_timeout(req_secs) == IF req_secs = 0 THEN 86400 * 24 ELSE req_secs

\* idle_dur: no timeout around stream.next() when the idle timeout is 0
idle_dur(effective_idle_secs_) == IF effective_idle_secs_ = 0 THEN None ELSE Some(effective_idle_secs_)

\* v with x inserted before the first element greater than x
RECURSIVE insert_sorted(_, _)
insert_sorted(v, x) ==
  IF v = <<>> THEN <<x>>
  ELSE IF x <= Head(v) THEN <<x>> \o v
  ELSE <<Head(v)>> \o insert_sorted(Tail(v), x)

\* v.sort_unstable()
RECURSIVE sort_unstable(_)
sort_unstable(v) ==
  IF v = <<>> THEN <<>> ELSE insert_sorted(sort_unstable(Tail(v)), Head(v))

\* faulty variant: the samples are not sorted before the rank is taken
p95_ms_unsorted(samples_ms) ==
  IF samples_ms = <<>> THEN None
  ELSE LET idx == (Len(samples_ms) * 95 + 99) \div 100 - 1
       IN IF idx + 1 \in DOMAIN samples_ms THEN Some(samples_ms[idx + 1]) ELSE None

\* LongAdapt::p95_ms on the samples held
p95_ms(samples_ms) ==
  IF samples_ms = <<>> THEN None
  ELSE LET v   == sort_unstable(samples_ms)
           idx == (Len(v) * 95 + 99) \div 100 - 1
       IN IF idx + 1 \in DOMAIN v THEN Some(v[idx + 1]) ELSE None

\* faulty variant: nothing is evicted from a full histogram
observe_unbounded(samples_ms, cap, ms) == Append(samples_ms, ms)

\* LongAdapt::observe on the samples held: pop_front when full, push_back
observe(samples_ms, cap, ms) ==
  Append(IF Len(samples_ms) >= cap THEN Tail(samples_ms) ELSE samples_ms, ms)

\* faulty variant: the estimate replaces the configured timeout
effective_idle_secs_replaced(idle_secs, is_long, adaptive, estimate) ==
  IF is_long /\ adaptive /\ idle_secs > 0 /\ estimate # None
  THEN (estimate[1] * 12 + 9999) \div 10000
  ELSE idle_secs

\* the idle timeout of an attempt: widened to ceil(p95_ms * 1.2 / 1000) for a
\* long job with the estimator enabled, a bounded timeout and an estimate
effective_idle_secs(idle_secs, is_long, adaptive, estimate) ==
  IF is_long /\ adaptive /\ idle_secs > 0 /\ estimate # None
  THEN Max(idle_secs, (estimate[1] * 12 + 9999) \div 10000)
  ELSE idle_secs

\* a job that has not been dispatched
Undispatched ==
  [pc |-> "new", is_long |-> FALSE, req_to |-> 0, idle_to |-> 0, effective_idle |-> 0,
   dt |-> 0, chunks |-> 0]

\* the long channel before any job is dispatched, for the runs in cfgs
LongIdle(cfgs, classes) ==
  /\ lc \in cfgs
  /\ adapt = [samples_ms |-> <<>>, cap |-> Cap, lock |-> None]
  /\ lj \in {[c \in Callers |-> [Undispatched EXCEPT !.is_long = f[c]]] : f \in classes}
  /\ observed = <<>>

\* no run: nothing is dispatched
NoLongRun ==
  [base |-> [req |-> 0, idle |-> 0], over |-> [req |-> None, idle |-> None],
   multiplier |-> 10, adaptive |-> FALSE]

LongOff == LongIdle({NoLongRun}, {[c \in Callers |-> FALSE]})

\* --------------------------------------------------------------------- Init
InitJobs(submitted, steady, chunks) ==
  /\ fault \in FaultKind
  /\ quota = [j \in Jobs |-> chunks]
  /\ net = [j \in Jobs |-> IF j \in steady THEN "steady" ELSE "flaky"]
  /\ idleSecs \in [Jobs -> IdleChoices]
  /\ \A j \in Jobs \ submitted : idleSecs[j] = 0
  /\ fs \in [Paths -> {Absent, File(OldContent)}]
  /\ \A p \in Paths : (p[2] # 0 \/ p[1] \notin submitted) => fs[p] = Absent
  /\ destBefore = [j \in Jobs |-> fs[DestPath(j)]]
  /\ pc = [j \in Jobs |-> IF j \in submitted THEN "queued" ELSE "idle"]
  /\ attempt = [j \in Jobs |-> 0]
  /\ guard = [j \in Jobs |-> NoGuard]
  /\ resp = [j \in Jobs |-> NoResp]
  /\ buffer = [j \in Jobs |-> <<>>]
  /\ finished = [j \in Jobs |-> FALSE]
  /\ chunksRead = [j \in Jobs |-> 0]
  /\ resume = [j \in Jobs |-> "none"]
  /\ result = [j \in Jobs |-> "none"]
  /\ sleeps = [j \in Jobs |-> <<>>]
  /\ received = [j \in Jobs |-> <<>>]
  /\ ended = [j \in Jobs |-> "none"]
  /\ all429 = [j \in Jobs |-> TRUE]
  /\ chunk = [j \in Jobs |-> <<>>]

\* one job, any behaviour of the network
Init == InitJobs({"j1"}, {}, MaxChunks) /\ LimiterOff /\ PoolOff /\ LongOff

\* two jobs running side by side, j2 on a steady network
InitPair ==
  /\ InitJobs(Jobs, {"j2"}, PairChunks)
  /\ LimiterOff
  /\ PoolOff
  /\ LongOff
  /\ \A j \in Jobs : idleSecs[j] = 0 <=> net[j] = "steady"
  /\ \A j \in Jobs : net[j] = "steady" => destBefore[j] = Absent

\* ------------------------------------------------------- shared transitions
\* faulty variant: the guard's file outlives the return
Fail_without_drop(j, kind) ==
  /\ fs' = fs
  /\ guard' = [guard EXCEPT ![j].open = FALSE]
  /\ result' = [result EXCEPT ![j] = kind]
  /\ pc' = [pc EXCEPT ![j] = "done"]
  /\ UNCHANGED <<attempt, resume, sleeps, resp>>

\* return Err(..): the guard is dropped, the job's execution ends in failure
Fail(j, kind) ==
  /\ fs' = drop(fs, guard[j])
  /\ guard' = [guard EXCEPT ![j].open = FALSE]
  /\ result' = [result EXCEPT ![j] = kind]
  /\ pc' = [pc EXCEPT ![j] = "done"]
  /\ UNCHANGED <<attempt, resume, sleeps, resp>>

\* sleep(Duration::from_millis(delay_ms)).await, followed by `how`
Backoff(j, how) ==
  /\ sleeps' = [sleeps EXCEPT ![j] = Append(@, [attempt |-> attempt[j], ms |-> Delay(attempt[j])])]
  /\ pc' = [pc EXCEPT ![j] = "backoff"]
  /\ resume' = [resume EXCEPT ![j] = how]
  /\ resp' = [resp EXCEPT ![j] = NoResp]
  /\ UNCHANGED <<fs, guard, result, attempt>>

\* faulty variant: a retryable outcome is retried whatever the attempt
RetryOrFail_unbounded(j, retryable, how, kind) ==
  IF retryable THEN Backoff(j, how) ELSE Fail(j, kind)

\* a retryable outcome: retried while attempts remain, else returned
RetryOrFail(j, retryable, how, kind) ==
  IF retryable /\ attempt[j] < MAX_ATTEMPTS
  THEN Backoff(j, how)
  ELSE Fail(j, kind)

\* faulty variant: a file-system error is retried like a network error
FsError_retried(j) == RetryOrFail(j, TRUE, "continue", "err_fs")

\* a file-system call returned Err and `?` returns it from process_file
FsError(j) == Fail(j, "err_fs")


\* ------------------------------------------------------------------ actions
\* process_file: read the input, then enter the retry loop with attempt 1
Start(j) ==
  /\ pc[j] = "queued"
  /\ \E readOk \in BOOLEAN :
       IF readOk
       THEN /\ pc' = [pc EXCEPT ![j] = "attempt"]
            /\ attempt' = [attempt EXCEPT ![j] = 1]
            /\ UNCHANGED <<fs, guard, result, resp, resume, sleeps>>
       ELSE /\ Fail(j, "err_input")
  /\ UNCHANGED <<cfg, notJob, chunk, buffer, finished, chunksRead, received, ended, all429>>

\* top of the loop body: create_dir_all, then open_temp_writer
OpenAttempt(j) ==
  /\ IF LimiterOn THEN pc[j] = "gate_req" /\ acquired(WorkerOf(j)) ELSE pc[j] = "attempt"
  /\ \E io \in {"ok", "mkdir_err", "create_err"} :
       IF io = "ok"
       THEN /\ guard' = [guard EXCEPT ![j] = open_temp_writer(j, attempt[j])]
            /\ fs' = [fs EXCEPT ![TmpPath(j, attempt[j])] = File(<<>>)]
            /\ pc' = [pc EXCEPT ![j] = "request"]
            /\ UNCHANGED <<result, resp, attempt, resume, sleeps>>
       ELSE /\ FsError(j)
  /\ UNCHANGED <<cfg, notJob, chunk, buffer, finished, chunksRead, received, ended, all429>>

\* status fault injection, else rb.send().await
Send(j) ==
  /\ pc[j] = "request"
  /\ IF fault \in {"Status429", "Status500"}
     THEN LET code == IF fault = "Status429" THEN 429 ELSE 500 IN
          /\ RetryOrFail(j, is_retryable_status(code), "continue", "err_inject")
          /\ all429' = [all429 EXCEPT ![j] = @ /\ code = 429]
     ELSE /\ \E r \in SendOutcomes(net[j]) : resp' = [resp EXCEPT ![j] = r]
          /\ pc' = [pc EXCEPT ![j] = "response"]
          /\ UNCHANGED <<fs, guard, result, attempt, resume, sleeps, all429>>
  /\ UNCHANGED <<cfg, notJob, chunk, buffer, finished, chunksRead, received, ended>>

\* match send_res, the status check, the idle fault injection and the set-up
\* of the stream read loop
HandleResponse(j) ==
  /\ pc[j] = "response"
  /\ IF resp[j].kind = "err"
     THEN /\ RetryOrFail(j, should_retry_error(resp[j].err), "continue", "err_send")
          /\ all429' = [all429 EXCEPT ![j] = FALSE]
          /\ UNCHANGED <<buffer, finished, chunksRead, received, ended>>
     ELSE IF ~is_success(resp[j].code)
     THEN /\ RetryOrFail(j, is_retryable_status(resp[j].code), "continue", "err_status")
          /\ all429' = [all429 EXCEPT ![j] = @ /\ resp[j].code = 429]
          /\ UNCHANGED <<buffer, finished, chunksRead, received, ended>>
     ELSE IF fault = "Idle"
     THEN /\ RetryOrFail(j, TRUE, "continue", "err_inject")
          /\ all429' = [all429 EXCEPT ![j] = FALSE]
          /\ UNCHANGED <<buffer, finished, chunksRead, received, ended>>
     ELSE /\ buffer' = [buffer EXCEPT ![j] = <<>>]
          /\ finished' = [finished EXCEPT ![j] = FALSE]
          /\ chunksRead' = [chunksRead EXCEPT ![j] = 0]
          /\ received' = [received EXCEPT ![j] = <<>>]
          /\ ended' = [ended EXCEPT ![j] = "none"]
          /\ pc' = [pc EXCEPT ![j] = "stream"]
          /\ resp' = [resp EXCEPT ![j] = NoResp]
          /\ UNCHANGED <<fs, guard, result, attempt, resume, sleeps, all429>>
  /\ UNCHANGED <<cfg, notJob, chunk>>

\* the sleep is over: `continue` drops the guard and starts the next attempt,
\* `break` leaves the stream read loop
Wake(j) ==
  /\ pc[j] = "backoff"
  /\ IF resume[j] = "continue"
     THEN /\ fs' = drop(fs, guard[j])
          /\ guard' = [guard EXCEPT ![j] = NoGuard]
          /\ IF attempt[j] < MAX_ATTEMPTS
             THEN /\ attempt' = [attempt EXCEPT ![j] = @ + 1]
                  /\ pc' = [pc EXCEPT ![j] = "attempt"]
                  /\ UNCHANGED result
             ELSE \* the for loop is exhausted: unreachable!(..)
                  /\ pc' = [pc EXCEPT ![j] = "done"]
                  /\ result' = [result EXCEPT ![j] = "panic"]
                  /\ UNCHANGED attempt
     ELSE /\ pc' = [pc EXCEPT ![j] = "tail"]
          /\ UNCHANGED <<fs, guard, attempt, result>>
  /\ resume' = [resume EXCEPT ![j] = "none"]
  /\ UNCHANGED <<cfg, notJob, chunk, resp, buffer, finished, chunksRead,
                 sleeps, received, ended, all429>>

\* timeout(d, stream.next()) elapsed: Err(_)
ReadTimeout(j) ==
  /\ pc[j] = "stream"
  /\ net[j] = "flaky"
  /\ idleSecs[j] # 0
  /\ ended' = [ended EXCEPT ![j] = "timeout"]
  /\ all429' = [all429 EXCEPT ![j] = FALSE]
  /\ RetryOrFail(j, TRUE, "break", "err_idle")
  /\ UNCHANGED <<cfg, notJob, chunk, buffer, finished, chunksRead, received>>

\* Ok(None): the stream ended
ReadEnd(j) ==
  /\ pc[j] = "stream"
  /\ ended' = [ended EXCEPT ![j] = "eos"]
  /\ pc' = [pc EXCEPT ![j] = "tail"]
  /\ UNCHANGED <<cfg, notJob, chunk, fs, attempt, guard, resp, buffer, finished,
                 chunksRead, resume, result, sleeps, received, all429>>

\* Ok(Some(Err(e))): the read failed
ReadError(j) ==
  /\ pc[j] = "stream"
  /\ net[j] = "flaky"
  /\ \E e \in ErrKinds :
       RetryOrFail(j, should_retry_error(e), "break", "err_read")
  /\ ended' = [ended EXCEPT ![j] = "error"]
  /\ all429' = [all429 EXCEPT ![j] = FALSE]
  /\ UNCHANGED <<cfg, notJob, chunk, buffer, finished, chunksRead, received>>

\* Ok(Some(Ok(chunk))): the chunk is appended to the buffer and every
\* complete line of the buffer goes through process_line
ReadChunk(j) ==
  /\ IF LimiterOn
     THEN pc[j] = "gate_bytes" /\ acquired(WorkerOf(j))
     ELSE pc[j] = "stream" /\ chunksRead[j] < quota[j]
  /\ \E ch \in (IF LimiterOn THEN {chunk[j]} ELSE Chunks), writeOk \in BOOLEAN :
       LET r == DrainLines(buffer[j] \o ch, <<>>) IN
       /\ received' = [received EXCEPT ![j] = @ \o ch]
       /\ chunksRead' = [chunksRead EXCEPT ![j] = @ + 1]
       /\ IF r.writes # <<>> /\ ~writeOk
          THEN /\ FsError(j)
               /\ UNCHANGED <<buffer, finished, ended>>
          ELSE /\ fs' = write_all(fs, guard[j], r.writes)
               /\ buffer' = [buffer EXCEPT ![j] = r.buf]
               /\ finished' = [finished EXCEPT ![j] = r.finished]
               /\ ended' = [ended EXCEPT ![j] = IF r.finished THEN "done" ELSE @]
               /\ pc' = [pc EXCEPT ![j] = IF r.finished THEN "tail" ELSE "stream"]
               /\ UNCHANGED <<guard, result, resp, attempt, resume, sleeps>>
  /\ chunk' = [chunk EXCEPT ![j] = <<>>]
  /\ UNCHANGED <<cfg, notJob, all429>>

\* after the read loop: an unterminated last line goes through process_line,
\* then writer.flush()
FlushTail(j) ==
  /\ pc[j] = "tail"
  /\ \E ioOk \in BOOLEAN :
       LET r == tail_line(buffer[j], finished[j])
       IN  IF ioOk
           THEN /\ fs' = write_all(fs, guard[j], r.writes)
                /\ buffer' = [buffer EXCEPT ![j] = IF finished[j] THEN @ ELSE <<>>]
                /\ pc' = [pc EXCEPT ![j] = "commit"]
                /\ UNCHANGED <<guard, result, resp, attempt, resume, sleeps>>
           ELSE /\ FsError(j)
                /\ UNCHANGED buffer
  /\ UNCHANGED <<cfg, notJob, chunk, finished, chunksRead, received, ended, all429>>

\* tmp_guard.commit(), then return Ok(())
Commit(j) ==
  /\ pc[j] = "commit"
  /\ \E renameOk \in BOOLEAN :
       IF renameOk
       THEN /\ fs' = commit(fs, guard[j])
            /\ guard' = [guard EXCEPT ![j] = [@ EXCEPT !.committed = TRUE, !.open = FALSE]]
            /\ result' = [result EXCEPT ![j] = "ok"]
            /\ pc' = [pc EXCEPT ![j] = "done"]
            /\ UNCHANGED <<resp, attempt, resume, sleeps>>
       ELSE FsError(j)
  /\ UNCHANGED <<cfg, notJob, chunk, buffer, finished, chunksRead, received, ended, all429>>

JobStep(j) ==
    \/ Start(j)
    \/ OpenAttempt(j)
    \/ Send(j)
    \/ HandleResponse(j)
    \/ Wake(j)
    \/ ReadTimeout(j)
    \/ ReadEnd(j)
    \/ ReadError(j)
    \/ ReadChunk(j)
    \/ FlushTail(j)
    \/ Commit(j)

Next == \E j \in Jobs : JobStep(j)

Spec == Init /\ [][Next]_vars

SpecPair == InitPair /\ [][Next]_vars

\* ------------------------------------------------- rate limiter: the steps
\* a worker is about to send a request: l.acquire_request()
CallAcquireRequest(w) ==
  /\ lw[w].pc = "out"
  /\ lw' = [lw EXCEPT ![w] = [pc |-> "req_cfg", need |-> 0, wake |-> 0]]
  /\ UNCHANGED <<clock, inner, lock, granted, calls, notLimiter>>

\* a worker has received a chunk: l.acquire_bytes(chunk.len())
CallAcquireBytes(w) ==
  /\ lw[w].pc = "out"
  /\ \E need \in Needs :
       lw' = [lw EXCEPT ![w] = [pc |-> "bytes_cfg", need |-> need, wake |-> 0]]
  /\ UNCHANGED <<clock, inner, lock, granted, calls, notLimiter>>

\* self.inner.lock().await returns: the Mutex was free
LockInner(w) ==
  /\ lw[w].pc \in {"req_cfg", "req_loop", "bytes_cfg", "bytes_loop"}
  /\ lock = None
  /\ lock' = Some(w)
  /\ UNCHANGED <<clock, inner, lw, granted, calls, notLimiter>>

\* acquire_request, first block: min_interval is read under the lock
RequestInterval(w) ==
  /\ lw[w].pc = "req_cfg"
  /\ lock = Some(w)
  /\ lock' = None
  /\ lw' = [lw EXCEPT ![w].pc = IF inner.rps = None THEN "out" ELSE "req_loop"]
  /\ UNCHANGED <<clock, inner, granted, calls, notLimiter>>

\* acquire_request, one turn of the loop: grant, or release and sleep
RequestCheck(w) ==
  /\ lw[w].pc = "req_loop"
  /\ lock = Some(w)
  /\ LET now == clock
         d   == due(inner.last_request, min_interval(inner.rps[1]), now)
     IN IF now >= d
        THEN /\ inner' = [inner EXCEPT !.last_request = Some(now)]
             /\ granted' = [n |-> granted.n + 1,
                            first |-> IF granted.n = 0 THEN now ELSE granted.first]
             /\ lock' = None
             /\ lw' = [lw EXCEPT ![w] = Outside]
        ELSE /\ lock' = drop_inner(lock)
             /\ lw' = [lw EXCEPT ![w].pc = "req_sleep", ![w].wake = now + (d - now)]
             /\ UNCHANGED <<inner, granted>>
  /\ UNCHANGED <<clock, calls, notLimiter>>

\* acquire_bytes, first block: the limit is read under the lock
BytesLimit(w) ==
  /\ lw[w].pc = "bytes_cfg"
  /\ lock = Some(w)
  /\ lock' = None
  /\ lw' = [lw EXCEPT ![w] = IF inner.bytes_per_sec = None
                             THEN Outside ELSE [@ EXCEPT !.pc = "bytes_loop"]]
  /\ UNCHANGED <<clock, inner, granted, calls, notLimiter>>

\* acquire_bytes, one turn of the loop: roll the epoch, then grant, or
\* release and sleep until the epoch ends
BytesCheck(w) ==
  /\ lw[w].pc = "bytes_loop"
  /\ lock = Some(w)
  /\ LET now    == clock
         rolled == roll_epoch(inner, now)
     IN IF fits(rolled, lw[w].need, inner.bytes_per_sec[1])
        THEN /\ inner' = [rolled EXCEPT !.bytes_in_epoch = @ + lw[w].need]
             /\ lock' = None
             /\ lw' = [lw EXCEPT ![w] = Outside]
        ELSE /\ inner' = rolled
             /\ lock' = drop_inner(lock)
             /\ lw' = [lw EXCEPT ![w].pc = "bytes_sleep",
                                 ![w].wake = now + (SECOND - (now - rolled.epoch_start))]
  /\ UNCHANGED <<clock, granted, calls, notLimiter>>

\* sleep(..).await returns, not before its time: the loop is entered again
SleepDone(w) ==
  /\ lw[w].pc \in {"req_sleep", "bytes_sleep"}
  /\ clock >= lw[w].wake
  /\ lw' = [lw EXCEPT ![w].pc = after_sleep(@), ![w].wake = 0]
  /\ UNCHANGED <<clock, inner, lock, granted, calls, notLimiter>>

\* time passes
Tick ==
  /\ clock < MaxTime
  /\ clock' = clock + 1
  /\ UNCHANGED <<inner, lock, lw, granted, calls, notLimiter>>

LimiterStep(w) ==
    \/ CallAcquireRequest(w)
    \/ CallAcquireBytes(w)
    \/ LockInner(w)
    \/ RequestInterval(w)
    \/ RequestCheck(w)
    \/ BytesLimit(w)
    \/ BytesCheck(w)
    \/ SleepDone(w)

NextLimiter == Tick \/ \E w \in Workers : LimiterStep(w)

\* no job is running: the workers of SpecLimiter stand for the job executions
JobsOff == InitJobs({}, {}, 0) /\ fault = "None"

\* a limiter with at least one of the two rates configured, just constructed
InitLimiter ==
  /\ JobsOff
  /\ PoolOff
  /\ LongOff
  /\ clock = 0
  /\ \E rps \in RpsChoices, bps \in BytesPerSecChoices :
       /\ rps # None \/ bps # None
       /\ inner = new(rps, bps, clock)
  /\ lock = None
  /\ lw = [w \in Workers |-> Outside]
  /\ granted = [n |-> 0, first |-> 0]
  /\ calls = [w \in Workers |-> 0]

SpecLimiter == InitLimiter /\ [][NextLimiter]_vars

\* --------------------------------------------------- worker pool: the steps
\* process_directory with nothing to process: the empty report
ReturnEmpty ==
  /\ main.pc = "plan"
  /\ run.normal + run.long = 0
  /\ main' = [main EXCEPT !.pc = "returned"]
  /\ UNCHANGED <<run, rx, turn, started, completed, pw, job_log, notPool>>

\* the budget is determined, both queues are filled and their senders dropped
Plan ==
  /\ main.pc = "plan"
  /\ run.normal + run.long > 0
  /\ main' = [main EXCEPT
                !.pc = "spawn",
                !.concurrency_limit =
                   determine_concurrency_limit(run.max_override, run.normal + run.long, run.sys)]
  /\ rx' = [q \in {"normal", "long"} |->
              [queue |-> IF q = "normal" THEN NormalJobs(run.normal) ELSE LongJobs(run.long),
               closed |-> TRUE, lock |-> None]]
  /\ job_log' = [j \in PoolJobs |->
                   IF j[2] <= (IF j[1] = "normal" THEN run.normal ELSE run.long)
                   THEN [state |-> "queued", takes |-> 0] ELSE job_log[j]]
  /\ UNCHANGED <<run, turn, started, completed, pw, notPool>>

\* faulty variant: the loop spawns one task more than the budget
spawned_all_late(spawned, limit) == spawned = Min(limit + 1, MaxBudget)

\* `for _ in 0..concurrency_limit` has run concurrency_limit times
spawned_all(spawned, limit) == spawned = limit

\* join_set.spawn: one more worker task, until the budget is reached
Spawn ==
  /\ main.pc = "spawn"
  /\ LET w == main.spawned + 1
     IN /\ pw' = [pw EXCEPT ![w].pc = "turn"]
        /\ main' = [main EXCEPT !.spawned = w,
                                !.pc = IF spawned_all(w, main.concurrency_limit)
                                       THEN "join" ELSE "spawn"]
  /\ UNCHANGED <<run, rx, turn, started, completed, job_log, notPool>>

\* faulty variant: every cycle prefers the long queue
prefers_long_always(t) == TRUE

\* turn.fetch_add(1, Ordering::SeqCst) % 2 == 0, for the value t drawn
prefers_long(t) == t % 2 = 0

\* head of the dispatch loop: turn.fetch_add(1) decides the preference
Turn(w) ==
  /\ pw[w].pc = "turn"
  /\ turn' = turn + 1
  /\ pw' = [pw EXCEPT ![w].pc = "try1", ![w].prefer_long = prefers_long(turn)]
  /\ UNCHANGED <<run, rx, started, completed, main, job_log, notPool>>

\* the position after receiving `got` at position `at`
AfterTake(at, got) ==
  IF got # None THEN "taken"
  ELSE CASE at = "try1" -> "try2"
         [] at = "try2" -> "block1"
         [] at = "block1" -> "block2"
         [] at = "block2" -> "exited"

\* the queue a worker at position `at` takes from
QueueOf(prefer_long, at) == QueueAt(prefer_long, IF at \in {"try1", "block1"} THEN 1 ELSE 2)

\* rx.lock().await returns in take_blocking: the Mutex was free
LockRx(w) ==
  /\ pw[w].pc \in {"block1", "block2"}
  /\ LET q == QueueOf(pw[w].prefer_long, pw[w].pc)
     IN /\ rx[q].lock = None
        /\ \A r \in {"normal", "long"} : rx[r].lock # Some(w)
        /\ rx' = [rx EXCEPT ![q].lock = Some(w)]
  /\ UNCHANGED <<run, turn, started, completed, pw, main, job_log, notPool>>

\* the worker holding the Mutex of q receives `got` and releases the Mutex
Receive(w, q, got) ==
  /\ rx' = [rx EXCEPT ![q].lock = None,
                      ![q].queue = IF got = None THEN @ ELSE recv(@).rest]
  /\ pw' = [pw EXCEPT ![w].pc = AfterTake(@, got), ![w].job = got]
  /\ job_log' = IF got = None THEN job_log
                ELSE [job_log EXCEPT ![got[1]].takes = @ + 1, ![got[1]].state = "taken"]

\* try_take: the Mutex is taken, try_recv is called and the Mutex released,
\* with no suspension point in between
TryTake(w) ==
  /\ pw[w].pc \in {"try1", "try2"}
  /\ LET q == QueueOf(pw[w].prefer_long, pw[w].pc)
     IN /\ rx[q].lock = None
        /\ Receive(w, q, IF rx[q].queue = <<>> THEN None ELSE recv(rx[q].queue).job)
  /\ UNCHANGED <<run, turn, started, completed, main, notPool>>

\* take_blocking: recv().await under the lock
TakeBlocking(w) ==
  /\ pw[w].pc \in {"block1", "block2"}
  /\ LET q == QueueOf(pw[w].prefer_long, pw[w].pc)
     IN /\ rx[q].lock = Some(w)
        /\ recv_ready(rx[q].queue, rx[q].closed)
        /\ Receive(w, q, IF rx[q].queue = <<>> THEN None ELSE recv(rx[q].queue).job)
  /\ UNCHANGED <<run, turn, started, completed, main, notPool>>

\* started.fetch_add(1), then process_file is entered
Begin(w) ==
  /\ pw[w].pc = "taken"
  /\ started' = started + 1
  /\ pw' = [pw EXCEPT ![w].pc = "run"]
  /\ job_log' = [job_log EXCEPT ![pw[w].job[1]].state = "running"]
  /\ UNCHANGED <<run, rx, turn, completed, main, notPool>>

\* faulty variant: a failed job ends the worker
after_failure_break(at) == "exited"

\* `continue` after a failed job: the next dispatch cycle
after_failure(at) == "turn"

\* process_file returns: Ok(..) or Err(..)
Finish(w) ==
  /\ pw[w].pc = "run"
  /\ \E ok \in BOOLEAN :
       /\ pw' = [pw EXCEPT ![w].pc = IF ok THEN "complete" ELSE after_failure(@),
                           ![w].job = IF ok THEN @ ELSE None]
       /\ job_log' = [job_log EXCEPT ![pw[w].job[1]].state = IF ok THEN "ok" ELSE "failed"]
  /\ UNCHANGED <<run, rx, turn, started, completed, main, notPool>>

\* faulty variant: a finished job is counted twice
count_done_twice(n) == n + 2

\* completed.fetch_add(1)
count_done(n) == n + 1

\* the success path: completed and processed are incremented
Complete(w) ==
  /\ pw[w].pc = "complete"
  /\ completed' = count_done(completed)
  /\ pw' = [pw EXCEPT ![w].pc = "turn", ![w].job = None, ![w].processed = @ + 1]
  /\ UNCHANGED <<run, rx, turn, started, main, job_log, notPool>>

\* join_set.join_next() yields a worker's Ok(processed)
Join(w) ==
  /\ main.pc = "join"
  /\ pw[w].pc = "exited"
  /\ pw' = [pw EXCEPT ![w].pc = "joined"]
  /\ main' = [main EXCEPT !.files_processed = @ + pw[w].processed]
  /\ UNCHANGED <<run, rx, turn, started, completed, job_log, notPool>>

\* the join set is empty: the report is returned
Return ==
  /\ main.pc = "join"
  /\ \A w \in PoolWorkers : pw[w].pc \in {"unspawned", "joined"}
  /\ main' = [main EXCEPT !.pc = "returned"]
  /\ UNCHANGED <<run, rx, turn, started, completed, pw, job_log, notPool>>

WorkerStep(w) ==
    \/ Turn(w)
    \/ LockRx(w)
    \/ TryTake(w)
    \/ TakeBlocking(w)
    \/ Begin(w)
    \/ Finish(w)
    \/ Complete(w)
    \/ Join(w)

NextPool == ReturnEmpty \/ Plan \/ Spawn \/ Return \/ \E w \in PoolWorkers : WorkerStep(w)

\* the runs of process_directory: the files of the two classes, the
\* override and what the probe finds
Runs ==
  { r \in [normal : 0 .. MaxJobs, long : 0 .. MaxJobs,
           max_override : Overrides, sys : Probes \cup {NoProbe}] :
      /\ r.normal + r.long <= MaxJobs
      /\ (r.max_override = None) <=> (r.sys # NoProbe) }

InitPool == JobsOff /\ LimiterOff /\ LongOff /\ PoolIdle(Runs, "plan")

SpecPool == InitPool /\ [][NextPool]_vars

\* the runtime schedules every task that can run, the main task included,
\* and every execution of a job returns
SpecPoolFair ==
  /\ SpecPool
  /\ WF_vars(ReturnEmpty \/ Plan \/ Spawn \/ Return)
  /\ \A w \in PoolWorkers : WF_vars(WorkerStep(w))

\* --------------------------------------------------- long channel: the steps
\* the job is enqueued with the timeouts of its class
Dispatch(c) ==
  /\ lj[c].pc = "new"
  /\ lj' = [lj EXCEPT
        ![c].pc = "attempt",
        ![c].req_to = IF lj[c].is_long
                      THEN compute_long_timeout(lc.base.req, lc.over.req, lc.multiplier)
                      ELSE lc.base.req,
        ![c].idle_to = IF lj[c].is_long
                       THEN compute_long_timeout(lc.base.idle, lc.over.idle, lc.multiplier)
                       ELSE lc.base.idle]
  /\ UNCHANGED <<lc, adapt, observed, notLong>>

\* an attempt has its response: the estimator is consulted for a long job
\* with a bounded idle timeout, otherwise the idle timeout is the job's own
EnterStream(c) ==
  /\ lj[c].pc = "attempt"
  /\ lj' = [lj EXCEPT
        ![c].pc = IF lj[c].is_long /\ lc.adaptive /\ lj[c].idle_to > 0
                  THEN "p95_wait" ELSE "stream",
        ![c].effective_idle =
           effective_idle_secs(lj[c].idle_to, lj[c].is_long, lc.adaptive, None)]
  /\ UNCHANGED <<lc, adapt, observed, notLong>>

\* self.inner.lock().await returns in observe or p95_ms: the Mutex was free
LockAdapt(c) ==
  /\ lj[c].pc \in {"p95_wait", "observe_wait"}
  /\ adapt.lock = None
  /\ adapt' = [adapt EXCEPT !.lock = Some(c)]
  /\ UNCHANGED <<lc, lj, observed, notLong>>

\* p95_ms under the lock, and the widening of the idle timeout by its result
QueryP95(c) ==
  /\ lj[c].pc = "p95_wait"
  /\ adapt.lock = Some(c)
  /\ adapt' = [adapt EXCEPT !.lock = None]
  /\ lj' = [lj EXCEPT
        ![c].pc = "stream",
        ![c].effective_idle =
           effective_idle_secs(lj[c].idle_to, lj[c].is_long, lc.adaptive,
                               p95_ms(adapt.samples_ms))]
  /\ UNCHANGED <<lc, observed, notLong>>

\* a chunk arrives dt after the one before: `let _ = ad.observe(dt);` makes
\* the future of observe and drops it unpolled, so its body does not run
ChunkReceived(c) ==
  /\ lj[c].pc = "stream"
  /\ lj[c].chunks < MaxGaps
  /\ lj' = [lj EXCEPT ![c].chunks = @ + 1]
  /\ UNCHANGED <<lc, adapt, observed, notLong>>

\* the stream of the attempt ends; the job may make another attempt
EndStream(c) ==
  /\ lj[c].pc = "stream"
  /\ lj' = [lj EXCEPT ![c].pc = "attempt", ![c].effective_idle = 0]
  /\ UNCHANGED <<lc, adapt, observed, notLong>>

\* a caller of a long job awaits observe(dt)
AwaitObserve(c) ==
  /\ lj[c].pc = "stream"
  /\ lj[c].is_long /\ lc.adaptive
  /\ LET k == Len(observed) + Cardinality({d \in Callers : lj[d].pc = "observe_wait"}) + 1
     IN /\ k <= MaxObserve
        /\ \E dt \in GapsAt(k) : lj' = [lj EXCEPT ![c].pc = "observe_wait", ![c].dt = dt]
  /\ UNCHANGED <<lc, adapt, observed, notLong>>

\* the body of observe under the lock
Observe(c) ==
  /\ lj[c].pc = "observe_wait"
  /\ adapt.lock = Some(c)
  /\ LET ms == as_millis(lj[c].dt)
     IN /\ adapt' = [adapt EXCEPT !.lock = None,
                                  !.samples_ms = observe(@, adapt.cap, ms)]
        /\ observed' = Append(observed, ms)
  /\ lj' = [lj EXCEPT ![c].pc = "stream", ![c].dt = 0]
  /\ UNCHANGED <<lc, notLong>>

\* the steps of the program: the gap of a chunk is handed to a dropped future
LongStep(c) ==
    \/ Dispatch(c)
    \/ EnterStream(c)
    \/ LockAdapt(c)
    \/ QueryP95(c)
    \/ ChunkReceived(c)
    \/ EndStream(c)

NextLong == \E c \in Callers : LongStep(c)

\* the steps of LongAdapt as a unit: its two methods, awaited by the callers
AdaptStep(c) ==
    \/ Dispatch(c)
    \/ EnterStream(c)
    \/ LockAdapt(c)
    \/ QueryP95(c)
    \/ AwaitObserve(c)
    \/ Observe(c)
    \/ EndStream(c)

NextAdapt == \E c \in Callers : AdaptStep(c)

\* the runs: base timeouts, long-channel overrides, multiplier, adaptive flag
LongRuns ==
  [base : BaseTimeouts, over : LongOverrides, multiplier : Multipliers, adaptive : BOOLEAN]

\* the runs the estimator is exercised with: no override, multiplier 1
AdaptRuns == {r \in LongRuns : r.over.req = None /\ r.multiplier = 10}

\* c1 is a long job; c2 is of either class
CallerClasses == {f \in [Callers -> BOOLEAN] : f["c1"]}

InitLong == JobsOff /\ LimiterOff /\ PoolOff /\ LongIdle(LongRuns, CallerClasses)

SpecLong == InitLong /\ [][NextLong]_vars

InitAdapt == JobsOff /\ LimiterOff /\ PoolOff /\ LongIdle(AdaptRuns, CallerClasses)

SpecAdapt == InitAdapt /\ [][NextAdapt]_vars





\* ------------------------------------- rate limiter: finitely many calls
\* limiter calls of each kind a worker makes, at most
MaxCalls == 2

\* timestamps older than this are as good as this one: an epoch that began
\* then is over, a request granted then is a full interval ago, a sleep
\* that ended then has ended
Floor == MaxTime - SECOND

\* a timestamp after one tick has passed with the clock kept at MaxTime
Earlier(t) == Max(t - 1, Floor)

\* one of finitely many calls of acquire_request
Request(w) ==
  /\ calls[w] < MaxCalls
  /\ lw[w].pc = "out"
  /\ lw' = [lw EXCEPT ![w] = [pc |-> "req_cfg", need |-> 0, wake |-> 0]]
  /\ calls' = [calls EXCEPT ![w] = @ + 1]
  /\ UNCHANGED <<clock, inner, lock, granted, notLimiter>>

\* one of finitely many calls of acquire_bytes(need)
Bytes(w) ==
  /\ calls[w] < MaxCalls
  /\ lw[w].pc = "out"
  /\ \E need \in Needs :
       lw' = [lw EXCEPT ![w] = [pc |-> "bytes_cfg", need |-> need, wake |-> 0]]
  /\ calls' = [calls EXCEPT ![w] = @ + 1]
  /\ UNCHANGED <<clock, inner, lock, granted, notLimiter>>

\* time passes beyond MaxTime: the clock reads MaxTime and every timestamp
\* moves one tick into the past
TickOn ==
  /\ clock = MaxTime
  /\ inner' = [inner EXCEPT
        !.last_request = IF @ = None THEN None ELSE Some(Earlier(@[1])),
        !.epoch_start = Earlier(@)]
  /\ lw' = [w \in Workers |->
             IF lw[w].pc \in {"req_sleep", "bytes_sleep"}
             THEN [lw[w] EXCEPT !.wake = Earlier(@)] ELSE lw[w]]
  /\ granted' = IF granted.n = 0 THEN granted ELSE [granted EXCEPT !.first = Earlier(@)]
  /\ UNCHANGED <<clock, lock, calls, notLimiter>>

\* a worker and the request gate: it calls, and goes through the call
RequestStep(w) ==
    \/ Request(w)
    \/ LockInner(w)
    \/ RequestInterval(w)
    \/ RequestCheck(w)
    \/ SleepDone(w)

\* a worker and the byte gate
BytesStep(w) ==
    \/ Bytes(w)
    \/ LockInner(w)
    \/ BytesLimit(w)
    \/ BytesCheck(w)
    \/ SleepDone(w)

NextRequests == Tick \/ TickOn \/ \E w \in Workers : RequestStep(w)

NextBytes == Tick \/ TickOn \/ \E w \in Workers : BytesStep(w)

\* time advances; a worker inside the limiter is scheduled; the tokio Mutex
\* serves its waiters in turn, so a worker waiting for it gets it
Scheduling ==
  /\ WF_vars(Tick \/ TickOn)
  /\ \A w \in Workers :
       /\ WF_vars(RequestInterval(w) \/ RequestCheck(w) \/ BytesLimit(w)
                    \/ BytesCheck(w) \/ SleepDone(w))
       /\ SF_vars(LockInner(w))

\* a limiter with a request rate only
InitRequests == InitLimiter /\ inner.rps # None /\ inner.bytes_per_sec = None

\* a limiter with a byte rate only
InitBytes == InitLimiter /\ inner.rps = None /\ inner.bytes_per_sec # None

\* finitely many calls of acquire_request, a request rate configured
SpecRequestsFair == InitRequests /\ [][NextRequests]_vars /\ Scheduling

\* finitely many calls of acquire_bytes, a byte rate configured
SpecBytesFair == InitBytes /\ [][NextBytes]_vars /\ Scheduling

\* ------------------------------------------ a job behind the rate limiter
\* chunks the server sends in one attempt of the rate-limited job, at most
GatedChunks == 1

\* the rates of the rate-limited run: two requests per second, and a byte
\* budget that holds the longest chunk
GatedRps == {None, Some(2)}
GatedBytesPerSec == {None, Some(12)}

\* head of the attempt: `if let Some(l) = &limiter { l.acquire_request().await; }`
AwaitRequestGrant(j) ==
  /\ pc[j] = "attempt"
  /\ LimiterOn
  /\ lw[WorkerOf(j)].pc = "out"
  /\ pc' = [pc EXCEPT ![j] = "gate_req"]
  /\ lw' = [lw EXCEPT ![WorkerOf(j)] = [pc |-> "req_cfg", need |-> 0, wake |-> 0]]
  /\ UNCHANGED <<cfg, fs, attempt, guard, resp, buffer, finished, chunksRead, resume,
                 result, sleeps, received, ended, all429, chunk>>
  /\ UNCHANGED <<clock, inner, lock, granted, calls, poolVars, longVars>>

\* Ok(Some(Ok(chunk))) with a limiter: l.acquire_bytes(chunk.len() as u64).await
AwaitBytesGrant(j) ==
  /\ pc[j] = "stream"
  /\ LimiterOn
  /\ chunksRead[j] < quota[j]
  /\ lw[WorkerOf(j)].pc = "out"
  /\ \E ch \in Chunks :
       /\ chunk' = [chunk EXCEPT ![j] = ch]
       /\ lw' = [lw EXCEPT ![WorkerOf(j)] = [pc |-> "bytes_cfg", need |-> Len(ch), wake |-> 0]]
  /\ pc' = [pc EXCEPT ![j] = "gate_bytes"]
  /\ UNCHANGED <<cfg, fs, attempt, guard, resp, buffer, finished, chunksRead, resume,
                 result, sleeps, received, ended, all429>>
  /\ UNCHANGED <<clock, inner, lock, granted, calls, poolVars, longVars>>

\* the steps of a job and of the limiter calls made for it
GatedStep(j) ==
    \/ JobStep(j)
    \/ AwaitRequestGrant(j)
    \/ AwaitBytesGrant(j)
    \/ LockInner(WorkerOf(j))
    \/ RequestInterval(WorkerOf(j))
    \/ RequestCheck(WorkerOf(j))
    \/ BytesLimit(WorkerOf(j))
    \/ BytesCheck(WorkerOf(j))
    \/ SleepDone(WorkerOf(j))

NextGated == Tick \/ GatedStep("j1")

\* one job on any network, and a limiter with at least one rate configured
InitGated ==
  /\ InitJobs({"j1"}, {}, GatedChunks)
  /\ PoolOff
  /\ LongOff
  /\ clock = 0
  /\ \E rps \in GatedRps, bps \in GatedBytesPerSec :
       /\ rps # None \/ bps # None
       /\ inner = new(rps, bps, clock)
  /\ lock = None
  /\ lw = [w \in Workers |-> Outside]
  /\ granted = [n |-> 0, first |-> 0]
  /\ calls = [w \in Workers |-> 0]

SpecGated == InitGated /\ [][NextGated]_vars

\* ================================================================== claims
\* the closed form of the backoff delay of attempt a, in milliseconds
DelayFormula(a) == Min(500 * 2^(a - 1), 30000)

\* the lines of a token sequence, the last one possibly unterminated
RECURSIVE Lines(_, _)
Lines(tokens, cur) ==
  IF tokens = <<>> THEN (IF cur = <<>> THEN <<>> ELSE <<cur>>)
  ELSE IF Head(tokens) = "\n" THEN <<cur>> \o Lines(Tail(tokens), <<>>)
  ELSE Lines(Tail(tokens), Append(cur, Head(tokens)))

Words(line) == SelectSeq(line, LAMBDA t : t # " ")
IsSentinelFrame(line) == Words(line) = <<"data:", "[DONE]">>
FrameDeltas(line) ==
  LET w == Words(line) IN
  IF Len(w) = 2 /\ w[1] = "data:" /\ w[2] \in {"A", "B", "AB"}
  THEN (IF w[2] = "A" THEN <<"a">> ELSE IF w[2] = "B" THEN <<"b">> ELSE <<"a", "b">>)
  ELSE <<>>

\* the deltas of the frames of a stream, in order, up to its first sentinel
RECURSIVE DeltasUntilSentinel(_)
DeltasUntilSentinel(ls) ==
  IF ls = <<>> \/ IsSentinelFrame(Head(ls)) THEN <<>>
  ELSE FrameDeltas(Head(ls)) \o DeltasUntilSentinel(Tail(ls))

ExpectedOutput(tokens) == DeltasUntilSentinel(Lines(tokens, <<>>))

Failed(j) == result[j] \notin {"none", "ok"}
Stepped(j) == <<pc[j], chunksRead[j]>>' # <<pc[j], chunksRead[j]>>
StagingFiles(j) == {p \in Paths : p[1] = j /\ p[2] # 0 /\ fs[p].exists}

\* C1: commit is executed only for an attempt whose stream reached [DONE] or
\* ended normally, never for one that ended by an idle timeout or a read error
C1_CommitOnlyAfterCompleteStream ==
  \A j \in Jobs : guard[j].committed => ended[j] \in {"done", "eos"}

\* C2: after the backoff sleep that follows an idle timeout or a retryable
\* read error on attempt a < 5, the attempt is abandoned without commit, its
\* staging file is discarded and attempt a+1 is started
C2_StalledAttemptIsRetried ==
  [][\A j \in Jobs :
       (pc[j] = "backoff" /\ ended[j] \in {"timeout", "error"} /\ pc'[j] # "backoff")
       => /\ pc'[j] = "attempt"
          /\ attempt'[j] = attempt[j] + 1
          /\ ~fs'[guard[j].tmp_path].exists
          /\ fs'[DestPath(j)] = fs[DestPath(j)]]_vars

\* C3: when a job returned success, its destination holds exactly the deltas
\* of the frames received in the committing attempt, in arrival order, up to
\* the sentinel or the end of what was received
C3_DestinationIsAllDeltasInOrder ==
  \A j \in Jobs :
    result[j] = "ok" => fs[DestPath(j)] = File(ExpectedOutput(received[j]))

C3_Witness ==
  \E j \in Jobs :
    /\ result[j] = "ok" /\ attempt[j] >= 2 /\ ended[j] = "done"
    /\ Len(fs[DestPath(j)].data) >= 2

\* C4: a job whose destination did not exist before the run and whose
\* execution returned failure leaves no destination and no staging file
C4_FailureLeavesNothing ==
  \A j \in Jobs :
    (Failed(j) /\ destBefore[j] = Absent)
    => fs[DestPath(j)] = Absent /\ StagingFiles(j) = {}

C4_Witness ==
  \E j \in Jobs :
    /\ result[j] = "err_idle" /\ destBefore[j] = Absent
    /\ ExpectedOutput(received[j]) # <<>>

\* C5: a delta write changes only the staging file of its attempt; the
\* destination changes only in the rename of commit, which publishes the whole
\* staged content, so the destination is either as before the run or complete;
\* no step of a job changes a file of another job
C5_OnlyCommitTouchesDestination ==
  /\ [](\A j \in Jobs :
          \/ fs[DestPath(j)] = destBefore[j]
          \/ result[j] = "ok" /\ fs[DestPath(j)] = File(ExpectedOutput(received[j])))
  /\ [][\A j \in Jobs :
          /\ fs'[DestPath(j)] # fs[DestPath(j)]
             => /\ pc[j] = "commit" /\ result'[j] = "ok"
                /\ fs'[DestPath(j)] = fs[guard[j].tmp_path]
          /\ Stepped(j) => \A p \in Paths : p[1] # j => fs'[p] = fs[p]
          /\ (Stepped(j) /\ pc[j] \in {"stream", "tail"})
             => \A p \in Paths : p # guard[j].tmp_path => fs'[p] = fs[p]]_vars

C5_Witness ==
  /\ pc["j1"] = "stream" /\ fs[guard["j1"].tmp_path].data # <<>>
  /\ result["j2"] = "ok" /\ fs[DestPath("j2")].data # <<>>

\* C6: a retryable outcome before streaming on attempt a < 5 (a send error
\* that is a timeout, connect or request error, or status 429 or 5xx) takes
\* exactly one sleep of delay(a), then removes the staging file of attempt a
\* without committing it and starts attempt a+1
RetryableBeforeStream(r) ==
  \/ r.kind = "err" /\ r.err \in {"timeout", "connect", "request"}
  \/ r.kind = "status" /\ (r.code = 429 \/ r.code \in 500..599)

C6_RetryBeforeStream ==
  [][\A j \in Jobs :
       /\ (pc[j] = "response" /\ pc'[j] # "response"
           /\ RetryableBeforeStream(resp[j]) /\ attempt[j] < 5)
          => /\ pc'[j] = "backoff"
             /\ sleeps'[j] = Append(sleeps[j], [attempt |-> attempt[j],
                                                ms |-> DelayFormula(attempt[j])])
             /\ fs' = fs
       /\ (pc[j] = "backoff" /\ pc'[j] # "backoff" /\ resume[j] = "continue")
          => /\ pc'[j] = "attempt"
             /\ attempt'[j] = attempt[j] + 1
             /\ sleeps'[j] = sleeps[j]
             /\ ~fs'[guard[j].tmp_path].exists
             /\ fs'[DestPath(j)] = fs[DestPath(j)]]_vars

C6_Witness ==
  \E j \in Jobs :
    /\ fault = "None" /\ pc[j] = "attempt" /\ attempt[j] = 3
    /\ Len(sleeps[j]) = 2 /\ StagingFiles(j) = {}

\* C7: at most 5 attempts; a retryable outcome on attempt 5 is returned as a
\* failure (no sleep follows attempt 5), no sixth attempt is started, the
\* unreachable! after the loop is never reached, and an execution that has
\* not returned can always take a step
C7_AtMostFiveAttempts ==
  \A j \in Jobs :
    /\ attempt[j] <= 5
    /\ Len(sleeps[j]) <= 4
    /\ pc[j] = "backoff" => attempt[j] < 5
    /\ result[j] # "panic"
    /\ pc[j] \notin {"idle", "done"} => ENABLED JobStep(j)
    /\ pc[j] = "done" <=> result[j] # "none"

C7_Witness ==
  \E j \in Jobs :
    /\ attempt[j] = 5 /\ Len(sleeps[j]) = 4
    /\ result[j] = "err_status" /\ resp[j].code = 429

\* C8: a non-success status is retried (while attempts remain) exactly when it
\* is 429 or in 500..599; any other non-success status fails the job on that
\* attempt, with no sleep and no further attempt, whatever the attempt
C8_StatusClassification ==
  [][\A j \in Jobs :
       /\ (pc[j] = "response" /\ pc'[j] # "response" /\ resp[j].kind = "status"
           /\ ~(resp[j].code \in 200..299))
          => IF resp[j].code = 429 \/ resp[j].code \in 500..599
             THEN IF attempt[j] < 5
                  THEN pc'[j] = "backoff" /\ result'[j] = "none"
                  ELSE pc'[j] = "done" /\ result'[j] = "err_status"
             ELSE /\ pc'[j] = "done" /\ result'[j] = "err_status"
                  /\ sleeps'[j] = sleeps[j] /\ attempt'[j] = attempt[j]
       /\ pc[j] = "done"
          => pc'[j] = "done" /\ attempt'[j] = attempt[j] /\ sleeps'[j] = sleeps[j]]_vars

C8_Witness ==
  \E j \in Jobs :
    /\ result[j] = "err_status" /\ resp[j].code = 404
    /\ attempt[j] = 3 /\ Len(sleeps[j]) = 2

\* C9: the delay of attempt a is min(500 * 2^(a-1), 30000) ms for a in 1..5,
\* non-decreasing and at most 30000, and every sleep taken after attempt a
\* lasts exactly that long
C9_BackoffDelay ==
  /\ \A a \in 1..5 :
       /\ Delay(a) = DelayFormula(a)
       /\ Delay(a) <= 30000
       /\ a < 5 => Delay(a) <= Delay(a + 1)
  /\ \A j \in Jobs : \A i \in DOMAIN sleeps[j] :
       /\ sleeps[j][i].attempt = i
       /\ sleeps[j][i].ms = DelayFormula(i)

C9_Witness ==
  \E j \in Jobs : Len(sleeps[j]) = 4 /\ sleeps[j][4].ms = 4000

\* C10: if attempts 1..k (k < 5) each ended with a 429 and attempt k+1
\* streamed to its sentinel, exactly k sleeps were taken, with the delays
\* delay(1)..delay(k) in that order, and the execution ends with the output of
\* attempt k+1 at the destination (a file system error at the final flush or
\* rename apart, which fails the job)
C10_RetriesThenCommit ==
  \A j \in Jobs :
    (all429[j] /\ ended[j] = "done")
    => /\ sleeps[j] = [i \in 1..(attempt[j] - 1) |->
                         [attempt |-> i, ms |-> DelayFormula(i)]]
       /\ (pc[j] = "done" /\ result[j] # "err_fs")
          => /\ result[j] = "ok"
             /\ fs[DestPath(j)] = File(ExpectedOutput(received[j]))

C10_Witness ==
  \E j \in Jobs :
    /\ all429[j] /\ ended[j] = "done" /\ attempt[j] = 4
    /\ result[j] = "ok" /\ fs[DestPath(j)].data # <<>>


\* C11: with fault injection enabled the injected failure is simulated on
\* attempts 1..4 only; the final attempt 5 is not failed by the injection but
\* runs the real request, so no job ends with the injected failure as outcome.
C11_FinalAttemptIsReal ==
  \A j \in Jobs :
    (fault # "None" /\ attempt[j] = MAX_ATTEMPTS) => result[j] # "err_inject"


\* ------------------------------------------------- claims: the rate limiter
\* the limiter's positions in which a worker sleeps
Sleeping == {"req_sleep", "bytes_sleep"}

\* 1/R in ticks, for the configured request rate R
Spacing == SECOND \div inner.rps[1]

\* a step in which worker w is granted its request slot
RequestGranted(w) == lw[w].pc = "req_loop" /\ lw'[w].pc = "out"

\* a step in which worker w is granted its byte permit
BytesGranted(w) == lw[w].pc = "bytes_loop" /\ lw'[w].pc = "out"

\* C12: with a request rate R, two successive grants are at least 1/R apart
\* and N grants span at least (N-1)/R; a grant sets last_request to the time
\* it is given at; the first grant is given without a sleep.
C12_RequestSpacing ==
  /\ [](inner.rps # None =>
          /\ granted.n >= 1 =>
               /\ inner.last_request # None
               /\ inner.last_request[1] - granted.first >= (granted.n - 1) * Spacing
          /\ granted.n = 0 => \A w \in Workers : lw[w].pc # "req_sleep")
  /\ [][\A w \in Workers :
          RequestGranted(w) =>
            /\ granted'.n = granted.n + 1
            /\ inner'.last_request = Some(clock)
            /\ inner.last_request # None => clock - inner.last_request[1] >= Spacing]_vars

\* three grants at rate 1 while the other worker sleeps for its slot
C12_Witness ==
  /\ inner.rps = Some(1)
  /\ granted.n >= 3
  /\ \E w \in Workers : lw[w].pc = "req_sleep"

\* C13: with a byte budget B, bytes_in_epoch <= B in every state; it is the
\* sum of the permits granted since the last epoch reset, and the epoch is
\* reset only when at least one second has passed since epoch_start.
C13_ByteBudget ==
  /\ [](inner.bytes_per_sec # None => inner.bytes_in_epoch <= inner.bytes_per_sec[1])
  /\ [][LET reset  == inner'.epoch_start # inner.epoch_start
            before == IF reset THEN 0 ELSE inner.bytes_in_epoch
        IN /\ reset => (clock - inner.epoch_start >= SECOND /\ inner'.epoch_start = clock)
           /\ \A w \in Workers :
                BytesGranted(w) /\ inner.bytes_per_sec # None
                  => inner'.bytes_in_epoch = before + lw[w].need
           /\ (\A w \in Workers : ~BytesGranted(w))
                  => inner'.bytes_in_epoch = before]_vars

\* a later epoch whose budget is used up, with a worker waiting for the next
C13_Witness ==
  /\ inner.bytes_per_sec # None
  /\ inner.epoch_start > 0
  /\ inner.bytes_in_epoch = inner.bytes_per_sec[1]
  /\ \E w \in Workers : lw[w].pc = "bytes_sleep" /\ lw[w].need = 1

\* C14: the limiter's lock is held for one check-and-update only: a worker
\* that sleeps for its slot or for the epoch boundary, or that is outside the
\* limiter doing its network I/O, does not hold the lock.
C14_NoSleepUnderLock ==
  \A w \in Workers : lw[w].pc \in Sleeping \cup {"out"} => lock # Some(w)

\* one worker sleeps while the other one holds the lock for its own check
C14_Witness ==
  \E w, v \in Workers :
    /\ lw[w].pc \in Sleeping
    /\ lock = Some(v)
    /\ lw[v].pc \in {"req_loop", "bytes_loop"}


\* -------------------------------------------------- claims: the worker pool
Classes == {"normal", "long"}

\* the jobs process_directory has enqueued
Enqueued == {j \in PoolJobs : job_log[j].state # "none"}

\* the jobs whose execution has returned
Settled == {j \in PoolJobs : job_log[j].state \in {"ok", "failed"}}

Succeeded == {j \in PoolJobs : job_log[j].state = "ok"}

\* the jobs waiting in a queue
InQueue(q) == {rx[q].queue[i] : i \in 1 .. Len(rx[q].queue)}

\* the worker tasks that have left their dispatch loop
Left == {w \in PoolWorkers : pw[w].pc \in {"exited", "joined"}}

\* C15: a worker leaves its dispatch loop only when both queues are empty and
\* closed: no worker has exited while a job is queued in either class.
C15_ExitOnlyWhenDrained ==
  \A w \in Left : \A q \in Classes : rx[q].queue = <<>> /\ rx[q].closed

\* one worker has left while the other one is still running the last job
C15_Witness ==
  /\ Left # {}
  /\ \E v \in PoolWorkers : pw[v].pc = "run"
  /\ run.normal >= 1 /\ run.long >= 1

\* C16: every enqueued job is taken from its queue by exactly one worker,
\* once: no job is taken twice, no two workers hold the same job, a job is
\* either still queued (once) or taken, and at the return all were taken.
C16_TakenExactlyOnce ==
  /\ \A j \in PoolJobs : job_log[j].takes <= 1
  /\ \A w, v \in PoolWorkers : (w # v /\ pw[w].job # None) => pw[w].job # pw[v].job
  /\ \A j \in Enqueued :
       /\ (job_log[j].takes = 0) <=> (j \in InQueue(j[1]))
       /\ Cardinality({i \in 1 .. Len(rx[j[1]].queue) : rx[j[1]].queue[i] = j}) <= 1
       /\ job_log[j].state \in {"taken", "running"}
            <=> (\E w \in PoolWorkers : pw[w].job = Some(j) /\ pw[w].pc \in {"taken", "run"})
  /\ main.pc = "returned" => \A j \in Enqueued : job_log[j].takes = 1

\* two workers run two jobs of the same class side by side
C16_Witness ==
  /\ pw[1].pc = "run" /\ pw[2].pc = "run"
  /\ pw[1].job[1][1] = "normal" /\ pw[2].job[1][1] = "normal"


\* the run has returned its report, every enqueued job has been started and
\* brought to an outcome, and every spawned worker has exited and been joined
AllSettled ==
  /\ main.pc = "returned"
  /\ Enqueued = Settled
  /\ started = run.normal + run.long
  /\ \A w \in PoolWorkers : pw[w].pc \in {"unspawned", "joined"}
  /\ \A q \in Classes : rx[q].lock = None

\* C17: under fair scheduling, with every job execution terminating, every
\* job of both classes is eventually started and brought to an outcome, every
\* worker exits and the run returns, whatever the two queue lengths are.
C17_EveryJobSettlesAndRunReturns == <>[]AllSettled

\* a run with all jobs in one class has returned, both workers having worked
C17_Witness ==
  /\ AllSettled
  /\ run.normal = MaxJobs /\ run.long = 0
  /\ \A w \in PoolWorkers : pw[w].pc = "joined"

\* a step in which the job of worker w returns failure
FailedStep(w) ==
  /\ pw[w].pc = "run"
  /\ pw'[w].pc # "run"
  /\ job_log'[pw[w].job[1]].state = "failed"

\* C18: a failed job aborts nothing else: the worker that ran it goes on to
\* its next dispatch cycle, no queue, other worker or other job is touched by
\* the failure, and the run returns a report whose files_processed is the
\* number of jobs that succeeded, every job having been brought to an outcome.
C18_FailureIsContained ==
  /\ [](main.pc = "returned" =>
          /\ Enqueued = Settled
          /\ main.files_processed = Cardinality(Succeeded))
  /\ [][\A w \in PoolWorkers :
          FailedStep(w) =>
            /\ pw'[w].pc = "turn"
            /\ \A v \in PoolWorkers \ {w} : pw'[v] = pw[v]
            /\ \A j \in PoolJobs \ {pw[w].job[1]} : job_log'[j] = job_log[j]
            /\ rx' = rx /\ main' = main]_vars

\* a single worker's first job (the long one) failed, its next one succeeded
C18_Witness ==
  /\ main.pc = "returned"
  /\ main.concurrency_limit = 1
  /\ job_log[<<"long", 1>>].state = "failed"
  /\ job_log[<<"normal", 1>>].state = "ok"
  /\ main.files_processed = 1

\* C19: started and completed never decrease; completed <= started <= job
\* count; started counts the jobs whose execution was entered, completed the
\* successes counted so far; at the return started is the job count and
\* completed the number of successful jobs.
C19_Counters ==
  /\ [](/\ completed <= started
        /\ started <= run.normal + run.long
        /\ started = Cardinality({j \in PoolJobs : job_log[j].state \in {"running", "ok", "failed"}})
        /\ completed = Cardinality(Succeeded)
                         - Cardinality({w \in PoolWorkers : pw[w].pc = "complete"})
        /\ main.pc = "returned" =>
             /\ started = run.normal + run.long
             /\ completed = Cardinality(Succeeded))
  /\ [][/\ started' \in {started, started + 1}
        /\ completed' \in {completed, completed + 1}]_vars

\* a returned run of three jobs of which one failed
C19_Witness ==
  /\ main.pc = "returned"
  /\ started = 3
  /\ completed = 2

\* the budget the claim states, for the run's override, job count and limits
StatedBudget ==
  LET n == run.normal + run.long
      u == run.max_override
  IN IF u # None
     THEN Min(Max(u[1], 1), n)
     ELSE Min(Max(Min(cpu_limit(run.sys), Min(memory_limit(run.sys), network_limit(run.sys))), 1), n)

\* the worker tasks that exist
Spawned == {w \in PoolWorkers : pw[w].pc # "unspawned"}

\* C20: the budget is in [1, job count]: the override clamped to that range,
\* or min(cpuLimit, memLimit, networkLimit) floored at 1 and capped at the job
\* count; exactly that many workers are spawned and the budget never changes.
C20_Budget ==
  /\ [](main.pc \in {"spawn", "join", "returned"} /\ run.normal + run.long > 0 =>
          /\ main.concurrency_limit = StatedBudget
          /\ main.concurrency_limit >= 1
          /\ main.concurrency_limit <= run.normal + run.long
          /\ Cardinality(Spawned) = main.spawned
          /\ main.spawned <= main.concurrency_limit
          /\ main.pc # "spawn" => main.spawned = main.concurrency_limit)
  /\ [][main.pc \notin {"plan", "off"} =>
          main'.concurrency_limit = main.concurrency_limit]_vars

\* an override above the job count, and a probe result above it, are capped
C20_Witness ==
  /\ main.pc = "join"
  /\ run.normal + run.long = 1
  /\ main.spawned = 1
  /\ \/ run.max_override = Some(2)
     \/ run.max_override = None /\ Min(cpu_limit(run.sys), memory_limit(run.sys)) > 1


\* ------------------------------------------------- claims: the long channel
\* the jobs that have been given their timeouts
Dispatched == {c \in Callers : lj[c].pc # "new"}

\* base * multiplier (the multiplier in tenths), to the nearest second
Product(base_secs, multiplier) == (base_secs * multiplier * 2 + 10) \div 20

\* C21, as stated: a long job's request and idle timeouts are the override
\* when one is given and otherwise the base timeout times the multiplier, for
\* every multiplier, those below 1 included.
C21_LongTimeoutIsProduct ==
  \A c \in Dispatched :
    lj[c].is_long =>
      /\ lj[c].req_to = IF lc.over.req # None THEN lc.over.req[1]
                        ELSE Product(lc.base.req, lc.multiplier)
      /\ lj[c].idle_to = IF lc.over.idle # None THEN lc.over.idle[1]
                         ELSE Product(lc.base.idle, lc.multiplier)

\* the timeout of a long job: the override; else the product for a multiplier
\* of at least 1, and the base timeout itself for any smaller multiplier
LongTimeout(base_secs, override_secs, multiplier) ==
  IF override_secs # None THEN override_secs[1]
  ELSE IF multiplier >= 10 THEN Product(base_secs, multiplier)
  ELSE base_secs

\* C21, amended: a long job's timeouts are the override when one is given,
\* otherwise base * multiplier (rounded) for a multiplier >= 1 and the base
\* timeout for a multiplier below 1: never below the base. A normal job has
\* the base timeouts. A value of 0 puts no idle timeout on the stream and the
\* stand-in of 24 * 86400 s on the request.
C21_LongTimeoutNeverBelowBase ==
  \A c \in Dispatched :
    /\ lj[c].req_to = IF lj[c].is_long
                      THEN LongTimeout(lc.base.req, lc.over.req, lc.multiplier)
                      ELSE lc.base.req
    /\ lj[c].idle_to = IF lj[c].is_long
                       THEN LongTimeout(lc.base.idle, lc.over.idle, lc.multiplier)
                       ELSE lc.base.idle
    /\ (lj[c].is_long /\ lc.over.idle = None) => lj[c].idle_to >= lc.base.idle
    /\ (lj[c].is_long /\ lc.over.req = None) => lj[c].req_to >= lc.base.req
    /\ (idle_dur(lj[c].idle_to) = None) <=> (lj[c].idle_to = 0)
    /\ request_timeout(lj[c].req_to) > 0

\* a long job dispatched with multiplier 0.5 keeps the base timeouts
C21_Witness ==
  \E c \in Dispatched :
    /\ lj[c].is_long
    /\ lc.multiplier = 5 /\ lc.over.req = None /\ lc.base.idle = 30
    /\ lj[c].idle_to = 30 /\ lj[c].req_to = 60

\* the elements of a sequence
Range(v) == {v[i] : i \in DOMAIN v}

\* the k-th smallest element of v, by counting
KthSmallest(v, k) ==
  CHOOSE x \in Range(v) :
    /\ Cardinality({i \in DOMAIN v : v[i] < x}) < k
    /\ k <= Cardinality({i \in DOMAIN v : v[i] <= x})

\* the sample at rank ceil(0.95 * n) of the n samples sorted ascending
Rank95(v) == KthSmallest(v, (Len(v) * 95 + 99) \div 100)

\* ceil(p95 * 1.2), the estimate being in milliseconds and the result in seconds
Widened(p95) == (p95 * 12 + 9999) \div 10000

\* a step in which the idle timeout of an attempt of c is fixed
IdleFixed(c) == lj[c].pc \in {"attempt", "p95_wait"} /\ lj'[c].pc = "stream"

LastOf(v, n) == SubSeq(v, Len(v) - n + 1, Len(v))

\* a step that is the body of observe run by c
Observes(c) ==
  lj[c].pc = "observe_wait" /\ adapt.lock = Some(c) /\ lj'[c].pc = "stream"

\* C23: whatever the calls of observe and their interleaving, the histogram
\* never holds more than its capacity of samples; a call on a full histogram
\* drops exactly the oldest sample and appends the new one; so the histogram
\* is the most recent min(n, capacity) of the n samples observed, in order.
C23_HistogramKeepsNewest ==
  [][/\ Len(adapt'.samples_ms) <= Cap
     /\ adapt'.samples_ms = LastOf(observed', Min(Len(observed'), Cap))
     /\ \A c \in Callers :
          Observes(c) =>
            LET ms == as_millis(lj[c].dt)
            IN IF Len(adapt.samples_ms) = Cap
               THEN /\ Len(adapt'.samples_ms) = Cap
                    /\ \A i \in 1 .. Cap - 1 : adapt'.samples_ms[i] = adapt.samples_ms[i + 1]
                    /\ adapt'.samples_ms[Cap] = ms
               ELSE adapt'.samples_ms = Append(adapt.samples_ms, ms)]_vars

\* two samples more than the capacity were observed, the oldest two are gone
C23_Witness ==
  /\ Len(observed) = Cap + 2
  /\ Len(adapt.samples_ms) = Cap
  /\ adapt.samples_ms[1] = observed[3]
  /\ adapt.samples_ms[1] # observed[1]

\* C24, as stated: every chunk a long job receives with adaptive mode on
\* appends its gap to the histogram, so once such a job has received a chunk
\* the histogram is not empty (and a later long attempt gets an estimate).
C24_ChunkGapsReachHistogram ==
  \A c \in Callers :
    (lj[c].is_long /\ lc.adaptive /\ lj[c].chunks >= 1) => adapt.samples_ms # <<>>

\* the greatest and the least element of a non-empty sequence
MaxOf(v) == CHOOSE x \in Range(v) : \A y \in Range(v) : y <= x
MinOf(v) == CHOOSE x \in Range(v) : \A y \in Range(v) : x <= y

\* a step that is the body of p95_ms run by c
Queries(c) ==
  lj[c].pc = "p95_wait" /\ adapt.lock = Some(c) /\ lj'[c].pc = "stream"

\* C25: p95_ms gives no estimate exactly when the histogram is empty; for
\* n >= 1 samples it gives the sample at rank ceil(0.95 n) of the ascending
\* order, which is one of the stored samples, between the least and the
\* greatest; and the query leaves the histogram as it was.
C25_P95IsRankedSample ==
  [][\A c \in Callers :
       Queries(c) =>
         LET v == adapt.samples_ms
             e == p95_ms(v)
         IN /\ (e = None) <=> (v = <<>>)
            /\ v # <<>> =>
                 /\ e = Some(Rank95(v))
                 /\ e[1] \in Range(v)
                 /\ MinOf(v) <= e[1] /\ e[1] <= MaxOf(v)
            /\ lj'[c].effective_idle =
                 IF e = None THEN lj[c].idle_to ELSE Max(lj[c].idle_to, Widened(e[1]))
            /\ adapt'.samples_ms = v
            /\ observed' = observed]_vars

\* an attempt whose idle timeout of 1 s was widened to 3 s by the estimate of
\* a full histogram, 2500 ms, the greatest sample being 40000 ms
C25_Witness ==
  \E c \in Callers :
    /\ lj[c].pc = "stream" /\ lj[c].is_long /\ lc.adaptive
    /\ Len(adapt.samples_ms) = Cap
    /\ MaxOf(adapt.samples_ms) = 40000
    /\ Rank95(adapt.samples_ms) = 2500
    /\ lj[c].idle_to = 1 /\ lj[c].effective_idle = 3


\* ------------------------------------------------------ claims: the frames
\* the lines of a token sequence that are terminated by a newline
CompleteLines(tokens) ==
  LET ls == Lines(tokens, <<>>) IN
  IF tokens = <<>> \/ tokens[Len(tokens)] = "\n" THEN ls ELSE SubSeq(ls, 1, Len(ls) - 1)

\* a blank line, a line without the data: prefix, or a data line whose
\* payload does not parse
IsIgnoredLine(line) ==
  LET w == Words(line) IN
  \/ w = <<>>
  \/ w[1] # "data:"
  \/ ~IsSentinelFrame(line) /\ ~(Len(w) = 2 /\ w[2] \in JsonPayloads)

\* the staged content of the current attempt of j
Staged(j) == fs[guard[j].tmp_path].data

\* a step in which j takes a chunk from its stream
TakesChunk(j) == pc[j] = "stream" /\ chunksRead'[j] = chunksRead[j] + 1

\* C26: a blank line, a line without the data: prefix and a data line that
\* does not parse each write nothing and neither end nor fail the attempt,
\* the frames after them are applied; the sentinel frame ends the reading and
\* nothing that follows it, in the same chunk or later, is written.
C26_IgnoredLinesAndSentinel ==
  [][\A j \in Jobs :
       /\ TakesChunk(j) =>
            LET ls == CompleteLines(buffer[j] \o SubSeq(received'[j], Len(received[j]) + 1,
                                                         Len(received'[j])))
                stop == \E i \in DOMAIN ls : IsSentinelFrame(ls[i])
            IN /\ (\A i \in DOMAIN ls : IsIgnoredLine(ls[i]))
                    => /\ result'[j] = "none" /\ pc'[j] = "stream"
                       /\ fs' = fs
               /\ result'[j] = "none"
                    => /\ fs'[guard[j].tmp_path].data = Staged(j) \o DeltasUntilSentinel(ls)
                       /\ finished'[j] = stop
                       /\ pc'[j] = IF stop THEN "tail" ELSE "stream"
       /\ (finished[j] /\ pc[j] \in {"tail", "commit"} /\ guard[j].open /\ result'[j] # "err_fs")
            => /\ pc'[j] # "stream"
               /\ fs'[IF pc[j] = "commit" THEN DestPath(j) ELSE guard[j].tmp_path].data = Staged(j)]_vars

\* a line without the prefix, an unparsable frame and a run-on line were
\* passed over, and the frame that came after them was written and committed
C26_Witness ==
  \E j \in Jobs :
    /\ result[j] = "ok"
    /\ received[j] = <<"X", "\n", "data:", "X", "\n", "data:", "E", "\n", "data:", " ", "[DONE]",
                       "data:", " ", "A", "\n", "data:", "B">>
    /\ fs[DestPath(j)].data = <<"b">>


\* ------------------------------------------- claims: file-system failures
\* a step of j that is a file-system call of the attempt: opening the
\* staging file, writing the deltas of a chunk, the tail flush, the rename
FsCall(j) == (pc[j] \in {"attempt", "tail", "commit"} /\ pc'[j] # pc[j]) \/ TakesChunk(j)

\* C28: a file-system error while the staging file is created, while a delta
\* is written or flushed, or in the rename of commit fails the job at once on
\* the attempt it is in, whatever its number: no backoff sleep, no further
\* attempt, and the destination is not changed.
C28_FsErrorFailsAtOnce ==
  [][\A j \in Jobs :
       /\ FsCall(j) =>
            /\ pc'[j] # "backoff"
            /\ sleeps'[j] = sleeps[j]
            /\ attempt'[j] = attempt[j]
            /\ result'[j] \in {"none", "ok", "err_fs"}
       /\ (result[j] = "none" /\ result'[j] = "err_fs") =>
            /\ FsCall(j)
            /\ pc'[j] = "done"
            /\ fs'[DestPath(j)] = fs[DestPath(j)]
            /\ fs'[DestPath(j)] = destBefore[j]
       /\ result[j] = "err_fs" => (pc'[j] = "done" /\ attempt'[j] = attempt[j])]_vars

\* the rename of the third attempt failed: two sleeps were taken, for the
\* attempts before it, and the old destination is still there
C28_Witness ==
  \E j \in Jobs :
    /\ result[j] = "err_fs" /\ attempt[j] = 3 /\ Len(sleeps[j]) = 2
    /\ ended[j] = "done" /\ buffer[j] # <<>>
    /\ destBefore[j] = File(OldContent) /\ fs[DestPath(j)] = File(OldContent)

\* C29: every attempt opens a staging file of its own; the staging file of
\* an attempt that did not commit is removed before the next attempt opens
\* one, so a job never has more than one; once the job has returned, with
\* success or with failure, it has none.
C29_OneStagingFilePerAttempt ==
  \A j \in Jobs :
    /\ Cardinality(StagingFiles(j)) <= 1
    /\ pc[j] \in {"queued", "idle", "attempt", "done"} => StagingFiles(j) = {}
    /\ pc[j] \in {"request", "response", "stream", "tail", "commit", "backoff"}
         => /\ guard[j].open /\ ~guard[j].committed
            /\ guard[j].tmp_path = TmpPath(j, attempt[j])
            /\ StagingFiles(j) = {guard[j].tmp_path}

\* the second attempt streams into its own staging file, the first is gone
C29_Witness ==
  \E j \in Jobs :
    /\ pc[j] = "stream" /\ attempt[j] = 2 /\ Len(sleeps[j]) = 1
    /\ StagingFiles(j) = {TmpPath(j, 2)}
    /\ fs[TmpPath(j, 2)].data # <<>>
    /\ ~fs[TmpPath(j, 1)].exists


\* ------------------------------------------------- claims: the preference
\* the queue a worker prefers in its current cycle
Preferred(w) == IF pw[w].prefer_long THEN "long" ELSE "normal"

\* a step in which worker w takes a job from queue q
TakesFrom(w, q) ==
  /\ pw[w].pc \in {"try1", "try2", "block1", "block2"}
  /\ pw'[w].pc = "taken"
  /\ rx[q].queue # <<>> /\ rx'[q].queue = Tail(rx[q].queue)
  /\ pw'[w].job = Some(Head(rx[q].queue))

\* C30: the cycle that draws turn value t prefers the long queue exactly
\* when t is even, and successive draws are successive values, so the
\* preference alternates; a cycle takes from the queue it does not prefer
\* only after its non-blocking check of the preferred queue found it empty;
\* a cycle that finds its preferred queue non-empty takes from it.
C30_AlternatingPreference ==
  [][\A w \in PoolWorkers :
       /\ (pw[w].pc = "turn" /\ pw'[w].pc # "turn") =>
            /\ pw'[w].prefer_long = (turn % 2 = 0)
            /\ turn' = turn + 1
            /\ pw'[w].pc = "try1"
       /\ pw[w].pc # "turn" => (turn' = turn \/ \E v \in PoolWorkers : pw[v].pc = "turn" /\ pw'[v].pc = "try1")
       /\ \A q \in Classes :
            (TakesFrom(w, q) /\ q # Preferred(w)) =>
              /\ pw[w].pc \in {"try2", "block2"}
              /\ rx[Preferred(w)].queue = <<>>
       /\ (pw[w].pc = "try1" /\ pw'[w].pc # "try1" /\ rx[Preferred(w)].queue # <<>>) =>
            TakesFrom(w, Preferred(w))
       /\ (pw[w].pc = "try1" /\ pw'[w].pc # "try1" /\ rx[Preferred(w)].queue = <<>>) =>
            pw'[w].pc = "try2" /\ rx' = rx]_vars

\* three turn values were drawn: a cycle preferring the long queue found it
\* empty and took a normal job, and a cycle preferring the normal queue holds
\* a normal job
C30_Witness ==
  \E w, v \in PoolWorkers :
    /\ w # v /\ turn = 3
    /\ pw[w].pc = "taken" /\ pw[w].prefer_long /\ pw[w].job[1][1] = "normal"
    /\ pw[v].pc = "taken" /\ ~pw[v].prefer_long /\ pw[v].job[1][1] = "normal"


\* ------------------------------------------------ claims: the rate gates
\* the positions of an attempt behind its request gate
PastRequestGate == {"request", "response", "stream", "gate_bytes", "tail", "commit", "backoff"}

\* a step in which j processes a chunk: it joins what was received
ProcessesChunk(j) == chunksRead'[j] = chunksRead[j] + 1

\* a step in which the limiter call made for j returns
GateReturns(j) == lw[WorkerOf(j)].pc # "out" /\ lw'[WorkerOf(j)].pc = "out"

\* C27: in every attempt, a retry as well as the first: with a request rate
\* configured the attempt has obtained a request grant, one for each attempt,
\* before its request is issued; with a byte rate configured the grant for the
\* bytes of a received chunk is obtained before anything of that chunk is
\* buffered, parsed or written to the staging file.
C27_GrantsComeFirst ==
  /\ [](\A j \in Jobs :
          inner.rps # None =>
            /\ pc[j] \in PastRequestGate => granted.n = attempt[j]
            /\ pc[j] = "attempt" => granted.n = attempt[j] - 1)
  /\ [][\A j \in Jobs :
          /\ (pc[j] = "request" /\ pc'[j] # "request" /\ inner.rps # None)
               => granted.n = attempt[j]
          /\ (pc[j] \in {"attempt", "gate_req"} /\ pc'[j] \in PastRequestGate /\ LimiterOn)
               => pc[j] = "gate_req" /\ lw[WorkerOf(j)] = Outside
          /\ (pc[j] = "gate_req" /\ GateReturns(j) /\ inner.rps # None)
               => /\ lw[WorkerOf(j)].pc = "req_loop"
                  /\ granted'.n = granted.n + 1
                  /\ inner'.last_request = Some(clock)
          /\ (ProcessesChunk(j) /\ LimiterOn)
               => /\ pc[j] = "gate_bytes" /\ lw[WorkerOf(j)] = Outside
                  /\ received'[j] = received[j] \o chunk[j]
          /\ (pc[j] = "gate_bytes" /\ GateReturns(j) /\ inner.bytes_per_sec # None)
               => /\ lw[WorkerOf(j)].pc = "bytes_loop"
                  /\ lw[WorkerOf(j)].need = Len(chunk[j])
                  /\ inner'.bytes_in_epoch
                       = roll_epoch(inner, clock).bytes_in_epoch + Len(chunk[j])
                  /\ inner'.bytes_in_epoch <= inner.bytes_per_sec[1]
                  /\ received'[j] = received[j] /\ fs' = fs /\ buffer' = buffer
          /\ (pc[j] \in {"stream", "gate_bytes"} /\ ~ProcessesChunk(j))
               => fs'[guard[j].tmp_path] = fs[guard[j].tmp_path] \/ pc'[j] \in {"attempt", "done"}]_vars

\* the second attempt, with both rates configured: it holds the second
\* request grant and has written deltas of a chunk whose bytes were granted
C27_Witness ==
  \E j \in Jobs :
    /\ inner.rps # None /\ inner.bytes_per_sec # None
    /\ pc[j] = "stream" /\ attempt[j] = 2 /\ granted.n = 2
    /\ received[j] # <<>> /\ Staged(j) # <<>>
    /\ inner.bytes_in_epoch = Len(received[j])


\* ------------------------------------------- claims: the end of the stream
\* C31: an attempt whose stream ends without the sentinel counts as a
\* success: what is left in the buffer is processed as one last frame, then
\* the staging file is committed with no sleep and no further attempt; a
\* stream that delivered no delta commits an empty destination. Only a
\* file-system error of the flush or the rename stands in the way.
C31_EndOfStreamCommits ==
  [][\A j \in Jobs :
       /\ (pc[j] = "stream" /\ ended'[j] = "eos" /\ ended[j] # "eos")
            => pc'[j] = "tail" /\ ~finished[j] /\ fs' = fs /\ buffer'[j] = buffer[j]
       /\ ended[j] = "eos" =>
            /\ attempt'[j] = attempt[j] /\ sleeps'[j] = sleeps[j] /\ ended'[j] = "eos"
            /\ pc[j] = "tail" =>
                 \/ pc'[j] = "tail"
                 \/ /\ pc'[j] = "commit"
                    /\ fs'[guard[j].tmp_path].data = Staged(j) \o FrameDeltas(buffer[j])
                    /\ fs'[guard[j].tmp_path].data = ExpectedOutput(received[j])
                 \/ pc'[j] = "done" /\ result'[j] = "err_fs"
            /\ pc[j] = "commit" =>
                 \/ pc'[j] = "commit"
                 \/ /\ pc'[j] = "done" /\ result'[j] = "ok"
                    /\ fs'[DestPath(j)] = File(Staged(j))
                    /\ received[j] = <<>> => fs'[DestPath(j)] = File(<<>>)
                 \/ pc'[j] = "done" /\ result'[j] = "err_fs"]_vars

\* a stream that ended in the middle of a frame: the unterminated frame was
\* written after the one before it, and the job returned success
C31_Witness ==
  \E j \in Jobs :
    /\ result[j] = "ok" /\ ended[j] = "eos"
    /\ received[j] = <<"data:", " ", "A", "\n", "data:", "B">>
    /\ fs[DestPath(j)] = File(<<"a", "b">>)

\* a stream that ended before any chunk: the old destination was replaced by
\* an empty file
C31_WitnessEmpty ==
  \E j \in Jobs :
    /\ result[j] = "ok" /\ ended[j] = "eos" /\ received[j] = <<>>
    /\ destBefore[j] = File(OldContent) /\ fs[DestPath(j)] = File(<<>>)


\* --------------------------------------------- claims: the gates let pass
\* the positions of a worker inside acquire_bytes and inside acquire_request
InBytes == {"bytes_cfg", "bytes_loop", "bytes_sleep"}
InRequest == {"req_cfg", "req_loop", "req_sleep"}

\* C32, as stated: with a byte budget configured every call acquire_bytes(n)
\* returns in the end, whatever n, also for n above the budget.
C32_ByteGateReturns ==
  \A w \in Workers :
    (inner.bytes_per_sec # None /\ lw[w].pc \in InBytes) ~> (lw[w].pc = "out")

\* for comparison: a call for no more than the budget does return
ByteGateReturnsWithinBudget ==
  \A w \in Workers :
    (inner.bytes_per_sec # None /\ lw[w].pc \in InBytes /\ lw[w].need <= inner.bytes_per_sec[1])
      ~> (lw[w].pc = "out")

\* C33: with a request rate configured and finitely many calls, every call of
\* acquire_request by any worker is granted in the end, as time advances and
\* the workers are scheduled: a worker that slept until a due time another
\* worker took checks again under the lock, and is not passed over for ever.
C33_RequestGateGrants ==
  \A w \in Workers :
    (inner.rps # None /\ lw[w].pc \in InRequest) ~> (lw[w].pc = "out")

\* both workers sleep until the same due time, after a first grant
C33_Witness ==
  /\ inner.rps # None /\ granted.n >= 1
  /\ lw["w1"].pc = "req_sleep" /\ lw["w2"].pc = "req_sleep"
  /\ lw["w1"].wake = lw["w2"].wake
  /\ lw["w1"].wake > clock


\* ------------------------------------------------ claims: jobs in flight
\* the jobs whose process_file call has begun and not returned
Executing == {j \in PoolJobs : job_log[j].state = "running"}

\* the workers inside a process_file call, and those holding a job
Busy == {w \in PoolWorkers : pw[w].pc = "run"}
Holding == {w \in PoolWorkers : pw[w].job # None}

\* C34: at any time the jobs being executed are no more than the concurrency
\* budget: there are budget-many workers, each executes the one job it holds,
\* and a worker takes a job only when it holds none, the one before having
\* returned.
C34_ExecutingWithinBudget ==
  /\ [](/\ Cardinality(Executing) <= main.concurrency_limit
        /\ Cardinality(Executing) = Cardinality(Busy)
        /\ Cardinality(Holding) <= main.concurrency_limit
        /\ \A w \in Busy : pw[w].job # None /\ pw[w].job[1] \in Executing
        /\ \A w, v \in Busy : pw[w].job = pw[v].job => w = v)
  /\ [][\A w \in PoolWorkers :
          /\ (pw'[w].job # None /\ pw'[w].job # pw[w].job)
               => pw[w].job = None /\ job_log[pw'[w].job[1]].state = "queued"
          /\ (pw[w].pc = "taken" /\ pw'[w].pc = "run")
               => \A j \in PoolJobs : job_log[j].state = "running" => pw[w].job # Some(j)]_vars

\* the budget of 2 is in use: two jobs are being executed, and a third waits
\* in its queue
C34_Witness ==
  /\ main.concurrency_limit = 2
  /\ Cardinality(Executing) = 2
  /\ \E j \in PoolJobs : job_log[j].state = "queued"
  /\ run.normal + run.long = 3

====
